---- MODULE Spec2Model ----
(***************************************************************************)
(* Shift matching of operators to desks, slot by slot over one day.        *)
(*                                                                         *)
(* Two pipelines are modelled, both from src/src/algorithms:               *)
(*   "da"          MultiSlotDAMatchingAlgorithm.match_daily: Deferred      *)
(*                 Acceptance per slot, then the shortage resolver.        *)
(*   "constrained" ConstrainedMultiSlotDAMatchingAlgorithm.match_daily:    *)
(*                 break tracker + per-desk selection per slot, then the   *)
(*                 shortage resolver, then (constrained_multi_slot_da_     *)
(*                 match) the break assignments appended after the day.    *)
(*                                                                         *)
(* Operators are named by numbers (name order = numeric order); the input  *)
(* list order is the sequence `operators`.  Slot i of the day stands for   *)
(* the slot id "h<FirstHour+i-1>" (two digits, so the string order of the  *)
(* ids is the numeric order of the hours).  Desks 1..NumDesks are the      *)
(* rows of the requirement table, in table order; BreakDesk is the         *)
(* synthetic break desk.                                                   *)
(***************************************************************************)
EXTENDS Integers, Sequences, FiniteSets, TLC

\* ---- bounds of the model ----
NumOps == 3
NumDesks == 3
NumSlots == 3
MaxReq == 2
MaxK == 2
MaxLen == 3
MaxShifts == 2
MaxConstraints == 3
NumDays == 2
MaxCalls == 3

MaxRun == 2
MaxDuties == 4

\* ---- program constants ----
FirstHour == 9
BreakDesk == 0
NoDesk == -1
TargetDate == 1
NightFrom == 22
NightUntil == 6

Ops == 1..NumOps
Desks == 1..NumDesks
Slots == 1..NumSlots

VARIABLES
    algorithm,      \* "da" | "constrained"
    hasBreak,       \* a RequiredBreakAfterConsecutiveSlots constraint is configured
    maxConsecutive, \* its max_consecutive_slots
    operators,      \* the operator list, in input order
    available,      \* operator -> set of slots (available_slots)
    preferred,      \* operator -> set of slots (preferred_slots)
    competent,      \* operator -> set of desks (competent desks)
    requirement,    \* desk -> required count per slot (DeskRequirement)
    desk_names,     \* desk -> the text of DeskRequirement.desk_name
    constraint_text,\* the lines of the constraint text handed to ConstraintParser
    constraints_config, \* the constraints enabled in ConstraintManager.constraints_config
    assignments,    \* the growing Assignment list of the day
    slot,           \* the slot being processed
    pc,             \* position in match_daily / constrained_multi_slot_da_match
    da,             \* the local state of one Deferred Acceptance run
    status,         \* the resolver's desk_status and required_break_operators
    flagged,        \* slot -> required_break_operators computed by the matcher
    breakCount,     \* slot -> the break desk's required_count used by the matcher
    verdict,        \* the result of the last constraint check
    target_date,    \* the date of the day being scheduled
    target_days,    \* the number of days to schedule
    all_assignments,\* the concatenated lists of the days already scheduled
    calls,          \* the number of calls of the scheduling run already returned
    constraints,    \* the constraint list of a ConstraintValidator
    cache,          \* its _validation_cache
    violations      \* the list returned by get_violations

vars == <<algorithm, hasBreak, maxConsecutive, operators, available, preferred,
          competent, requirement, desk_names, constraint_text,
          constraints_config, assignments, slot, pc, da, status, flagged,
          breakCount, verdict, target_date, target_days, all_assignments,
          calls, constraints, cache,
          violations>>

inputs == <<algorithm, hasBreak, maxConsecutive, operators, available, preferred,
            competent, requirement, desk_names, constraint_text,
            constraints_config>>

days == <<target_date, target_days, all_assignments, calls>>

validator == <<constraints, cache, violations>>

\* ---- generic helpers ----
Range(s) == {s[i] : i \in DOMAIN s}

Min(S) == CHOOSE x \in S : \A y \in S : x <= y

MinNat(a, b) == IF a <= b THEN a ELSE b

MaxNat(a, b) == IF a >= b THEN a ELSE b

\* position of the first occurrence of x in s (list.index)
RECURSIVE IndexFrom(_, _, _)
IndexFrom(s, x, i) ==
    IF i > Len(s) THEN 0
    ELSE IF s[i] = x THEN i ELSE IndexFrom(s, x, i + 1)

Index(s, x) == IndexFrom(s, x, 1)

\* list.remove(x): drops the first occurrence
RemoveFirst(s, x) ==
    LET i == Index(s, x)
    IN IF i = 0 THEN s
       ELSE SubSeq(s, 1, i - 1) \o SubSeq(s, i + 1, Len(s))

\* first n elements of s
Take(s, n) == SubSeq(s, 1, MinNat(n, Len(s)))

\* the sum of f over the indices from i to the end of its domain 1..n
RECURSIVE SumFrom(_, _)
SumFrom(f, i) ==
    IF i \notin DOMAIN f THEN 0 ELSE f[i] + SumFrom(f, i + 1)

\* ---- data model ----
Assignment(o, d, s, dt) == [op |-> o, desk |-> d, slot |-> s, date |-> dt]

\* hour parsed from a slot id: int(slot_id[1:])
SlotHour(s) == FirstHour + s - 1

can_work_slot(o, s) == s \in available[o]

prefers_slot(o, s) == s \in preferred[o]

can_work_desk(o, d) == d \in competent[o]

\* the required count read one too low
RequirementOneLess(d, s) == MaxNat(0, requirement[d] - 1)

get_requirement_for_slot(d, s) == requirement[d]

\* key (date, slot_id) of the sorts of the break counting code
DateSlotLess(a, b) ==
    \/ a.date < b.date
    \/ a.date = b.date /\ a.slot < b.slot

\* list.sort(key=(date, slot_id)): stable insertion sort
RECURSIVE InsertSorted(_, _)
InsertSorted(sorted, a) ==
    IF sorted = << >> THEN <<a>>
    ELSE IF DateSlotLess(a, sorted[Len(sorted)])
         THEN InsertSorted(SubSeq(sorted, 1, Len(sorted) - 1), a)
                  \o <<sorted[Len(sorted)]>>
         ELSE Append(sorted, a)

RECURSIVE SortByDateSlot(_)
SortByDateSlot(s) ==
    IF s = << >> THEN << >>
    ELSE InsertSorted(SortByDateSlot(SubSeq(s, 1, Len(s) - 1)), s[Len(s)])

\* ---- consecutive-break tracker ----
\* counter after scanning a sorted list: reset at a break, +1 otherwise
RECURSIVE ConsecutiveCount(_, _)
ConsecutiveCount(s, c) ==
    IF s = << >> THEN c
    ELSE ConsecutiveCount(Tail(s),
                          IF Head(s).desk = BreakDesk THEN 0 ELSE c + 1)

\* the operator's assignments of an earlier hour, sorted by (date, slot)
EarlierAssignments(asg, o, s) ==
    SortByDateSlot(SelectSeq(asg, LAMBDA a :
        a.op = o /\ SlotHour(a.slot) < SlotHour(s)))

\* a counter that is never reset by a break
TrackerCountNoReset(asg, o, s) == Len(EarlierAssignments(asg, o, s))

TrackerCount(asg, o, s) == ConsecutiveCount(EarlierAssignments(asg, o, s), 0)

\* operators already holding an assignment with this slot id
AssignedInSlot(asg, s) == {asg[i].op : i \in {j \in DOMAIN asg : asg[j].slot = s}}

\* the flag raised one slot late (count > max instead of >=)
RequiredBreakOperatorsLate(asg, s) ==
    IF hasBreak
    THEN {o \in Range(operators) :
            /\ o \notin AssignedInSlot(asg, s)
            /\ TrackerCount(asg, o, s) > maxConsecutive}
    ELSE {}

\* a tracker that also reads the lists of the calls already returned
RequiredBreakOperatorsCarried(asg, s) ==
    IF hasBreak
    THEN {o \in Range(operators) :
            /\ o \notin AssignedInSlot(asg, s)
            /\ TrackerCount(all_assignments \o asg, o, s) >= maxConsecutive}
    ELSE {}

\* required_break_operators
RequiredBreakOperators(asg, s) ==
    IF hasBreak
    THEN {o \in Range(operators) :
            /\ o \notin AssignedInSlot(asg, s)
            /\ TrackerCount(asg, o, s) >= maxConsecutive}
    ELSE {}

\* a single break seat whenever somebody is flagged
BreakRequiredCountOneSeat(rbo) == IF rbo = {} THEN 0 ELSE 1

\* the break desk's required_count appended to slot_requirements
BreakRequiredCount(rbo) == Cardinality(rbo)

\* ---- slot matching of the constrained algorithm ----
\* sort key (slot_id in preferred_slots, operator_name), reverse=True
KeyGreater(a, b, s) ==
    \/ prefers_slot(a, s) /\ ~prefers_slot(b, s)
    \/ prefers_slot(a, s) = prefers_slot(b, s) /\ a > b

RECURSIVE SortCandidates(_, _)
SortCandidates(S, s) ==
    IF S = {} THEN << >>
    ELSE LET top == CHOOSE a \in S : \A b \in S \ {a} : KeyGreater(a, b, s)
         IN <<top>> \o SortCandidates(S \ {top}, s)

\* the operators of a list that satisfy a test, in list order
OpsWhere(Test(_)) == SelectSeq(operators, Test)

\* Assignment objects for a list of operators on one desk
RECURSIVE AssignAll(_, _, _)
AssignAll(ops, d, s) ==
    IF ops = << >> THEN << >>
    ELSE <<Assignment(Head(ops), d, s, target_date)>> \o AssignAll(Tail(ops), d, s)

\* the requirement loop without the exclusion of break-required operators
MatchNormalDeskNoBreakCheck(m, existing, d, s, rbo) ==
    LET existingDesk == SelectSeq(existing, LAMBDA a : a.slot = s /\ a.desk = d)
        additional == get_requirement_for_slot(d, s) - Len(existingDesk)
        cands == {o \in Range(operators) :
                    /\ o \notin m.assigned
                    /\ s \in available[o]
                    /\ can_work_desk(o, d)}
        chosen == Take(SortCandidates(cands, s), MaxNat(additional, 0))
    IN IF additional <= 0
       THEN [m EXCEPT !.out = @ \o existingDesk]
       ELSE [out |-> m.out \o AssignAll(chosen, d, s),
             assigned |-> m.assigned \cup Range(chosen)]

\* one normal desk of the requirement loop; m = [out, assigned]
MatchNormalDesk(m, existing, d, s, rbo) ==
    LET existingDesk == SelectSeq(existing, LAMBDA a : a.slot = s /\ a.desk = d)
        additional == get_requirement_for_slot(d, s) - Len(existingDesk)
        cands == {o \in Range(operators) :
                    /\ o \notin m.assigned
                    /\ s \in available[o]
                    /\ can_work_desk(o, d)
                    /\ o \notin rbo}
        chosen == Take(SortCandidates(cands, s), MaxNat(additional, 0))
    IN IF additional <= 0
       THEN [m EXCEPT !.out = @ \o existingDesk]
       ELSE [out |-> m.out \o AssignAll(chosen, d, s),
             assigned |-> m.assigned \cup Range(chosen)]

\* the break desk entry of the requirement loop
MatchBreakDesk(m, existing, s, rbo, count) ==
    LET existingDesk == SelectSeq(existing, LAMBDA a : a.slot = s /\ a.desk = BreakDesk)
        additional == count - Len(existingDesk)
        cands == OpsWhere(LAMBDA o :
                    /\ o \notin m.assigned
                    /\ s \in available[o]
                    /\ o \in rbo)
        chosen == Take(cands, MaxNat(additional, 0))
    IN IF additional <= 0
       THEN [m EXCEPT !.out = @ \o existingDesk]
       ELSE [out |-> m.out \o AssignAll(chosen, BreakDesk, s),
             assigned |-> m.assigned \cup Range(chosen)]

\* the desks with a positive requirement for the slot, in table order
RECURSIVE MatchNormalDesks(_, _, _, _, _)
MatchNormalDesks(m, existing, d, s, rbo) ==
    IF d > NumDesks THEN m
    ELSE MatchNormalDesks(
             IF get_requirement_for_slot(d, s) > 0
             THEN MatchNormalDesk(m, existing, d, s, rbo)
             ELSE m,
             existing, d + 1, s, rbo)

\* _match_slot_with_constraints: the assignments returned for the slot
MatchSlotWithConstraints(existing, s, rbo, count) ==
    LET m0 == [out |-> << >>, assigned |-> AssignedInSlot(existing, s)]
        m1 == MatchNormalDesks(m0, existing, 1, s, rbo)
    IN IF hasBreak
       THEN MatchBreakDesk(m1, existing, s, rbo, count).out
       ELSE m1.out

\* ---- shortage resolver (_optimize_assignments_for_shortage) ----
\* the resolver works on r = [asg, desk, rbo, log]: the assignment list, the
\* desk_status table (its 'assignments' lists hold positions of asg, the
\* Assignment objects being shared), required_break_operators, and the history
\* of chained moves.

\* positions of the assignments of a desk in a slot, in list order
\* desk_status built from the whole list instead of the slot's assignments
RECURSIVE DeskPositionsAnySlot(_, _, _, _)
DeskPositionsAnySlot(asg, d, s, i) ==
    IF i > Len(asg) THEN << >>
    ELSE (IF asg[i].desk = d THEN <<i>> ELSE << >>)
             \o DeskPositionsAnySlot(asg, d, s, i + 1)

RECURSIVE DeskPositions(_, _, _, _)
DeskPositions(asg, d, s, i) ==
    IF i > Len(asg) THEN << >>
    ELSE (IF asg[i].desk = d /\ asg[i].slot = s THEN <<i>> ELSE << >>)
             \o DeskPositions(asg, d, s, i + 1)

DeskStatus(asg, s) ==
    [d \in Desks |->
        LET cur == DeskPositions(asg, d, s, 1)
            req == get_requirement_for_slot(d, s)
        IN [required |-> req,
            current |-> Len(cur),
            shortage |-> MaxNat(0, req - Len(cur)),
            surplus |-> MaxNat(0, Len(cur) - req),
            list |-> cur]]

UnassignedOperators(asg, s) ==
    OpsWhere(LAMBDA o : o \notin AssignedInSlot(asg, s) /\ can_work_slot(o, s))

\* the break-eligibility test repeated in every phase
BreakEligible(rbo, o, d) ==
    IF hasBreak
    THEN IF o \in rbo THEN d = BreakDesk ELSE d # BreakDesk
    ELSE TRUE

ResolverStart(asg, s) ==
    [asg |-> asg,
     desk |-> DeskStatus(asg, s),
     rbo |-> RequiredBreakOperators(asg, s),
     unassigned |-> UnassignedOperators(asg, s),
     shortDesks |-> << >>,
     log |-> << >>]

\* step 1 without the shortage test: the first desk the operator may take
IdleToAnyDesk(r, o, s) ==
    LET ok == {d \in Desks :
                 /\ can_work_desk(o, d)
                 /\ BreakEligible(r.rbo, o, d)}
        d == Min(ok)
        n == Len(r.asg) + 1
    IN IF ok = {} THEN r
       ELSE [r EXCEPT
               !.asg = Append(@, Assignment(o, d, s, target_date)),
               !.desk[d].current = @ + 1,
               !.desk[d].shortage = @ - 1,
               !.desk[d].list = Append(@, n)]

\* step 1, one idle operator: the first understaffed desk it may take
IdleToShortage(r, o, s) ==
    LET ok == {d \in Desks :
                 /\ r.desk[d].shortage > 0
                 /\ can_work_desk(o, d)
                 /\ BreakEligible(r.rbo, o, d)}
        d == Min(ok)
        n == Len(r.asg) + 1
    IN IF ok = {} THEN r
       ELSE [r EXCEPT
               !.asg = Append(@, Assignment(o, d, s, target_date)),
               !.desk[d].current = @ + 1,
               !.desk[d].shortage = @ - 1,
               !.desk[d].list = Append(@, n)]

RECURSIVE Step1(_, _, _)
Step1(r, ops, s) ==
    IF ops = << >> THEN r
    ELSE Step1(IdleToShortage(r, Head(ops), s), Tail(ops), s)

\* move targets chosen without the donor's competence test
MoveTargetsAnyDesk(r, donor, d) ==
    {t \in Desks :
        /\ t # d
        /\ r.desk[t].shortage > 0
        /\ BreakEligible(r.rbo, donor, t)}

\* step 1-2: the desks another operator may be moved to from desk d
MoveTargets(r, donor, d) ==
    {t \in Desks :
        /\ t # d
        /\ r.desk[t].shortage > 0
        /\ can_work_desk(donor, t)
        /\ BreakEligible(r.rbo, donor, t)}

\* positions of desk d's list whose operator has a target
Movable(r, d) ==
    SelectSeq(r.desk[d].list, LAMBDA i : MoveTargets(r, r.asg[i].op, d) # {})

\* whether the desk loop of step 1-2 stops after desk d for operator o:
\* any(a.desk_name != desk_name for a in current_assignments
\*     if a.operator_name == operator.operator_name)
ChainStops(r, o, d) ==
    \E k \in DOMAIN r.desk[d].list :
        /\ r.asg[r.desk[d].list[k]].op = o
        /\ r.asg[r.desk[d].list[k]].desk # d

\* step 1-2, operator o at desk d: move the first movable occupant, take its place
ChainAtDesk(r, o, d, s) ==
    LET mov == Movable(r, d)
        i == Head(mov)
        t == Min(MoveTargets(r, r.asg[i].op, d))
        n == Len(r.asg) + 1
    IN IF mov = << >>
       THEN r
       ELSE [r EXCEPT
               !.asg = Append([@ EXCEPT ![i].desk = t], Assignment(o, d, s, target_date)),
               !.desk[d].list = Append(RemoveFirst(@, i), n),
               !.desk[t].current = @ + 1,
               !.desk[t].shortage = @ - 1,
               !.desk[t].list = Append(@, i),
               !.log = Append(@, [idle |-> o, donor |-> r.asg[i].op,
                                  from |-> d, to |-> t])]

\* the desk loop of step 1-2 for operator o, from desk d on
RECURSIVE ChainDesks(_, _, _, _)
ChainDesks(r, o, d, s) ==
    IF d > NumDesks THEN r
    ELSE IF ~can_work_desk(o, d) \/ ~BreakEligible(r.rbo, o, d)
         THEN ChainDesks(r, o, d + 1, s)
         ELSE LET r2 == ChainAtDesk(r, o, d, s)
              IN IF ChainStops(r2, o, d) THEN r2
                 ELSE ChainDesks(r2, o, d + 1, s)

RECURSIVE ChainOps(_, _, _)
ChainOps(r, ops, s) ==
    IF ops = << >> THEN r
    ELSE ChainOps(ChainDesks(r, Head(ops), 1, s), Tail(ops), s)

\* remaining_unassigned: idle operators still without an assignment in the slot
RemainingUnassigned(r, s) ==
    SelectSeq(r.unassigned, LAMBDA o : o \notin AssignedInSlot(r.asg, s))

Step1_2(r, s) == ChainOps(r, RemainingUnassigned(r, s), s)

\* the desks satisfying a test, in desk_status order
DesksWhere(Test(_)) == SelectSeq([d \in 1..NumDesks |-> d], Test)

\* step 2, one assignment of a surplus desk: move it to the first shortage desk
\* of shortage_desks its operator may take
SurplusMove(r, sd, pos) ==
    LET o == r.asg[pos].op
        cands == SelectSeq(r.shortDesks, LAMBDA t :
                    /\ r.desk[t].shortage > 0
                    /\ can_work_desk(o, t)
                    /\ BreakEligible(r.rbo, o, t))
        t == Head(cands)
    IN IF cands = << >> THEN r
       ELSE [r EXCEPT
               !.asg[pos].desk = t,
               !.desk[sd].current = @ - 1,
               !.desk[sd].surplus = @ - 1,
               !.desk[sd].list = RemoveFirst(@, pos),
               !.desk[t].current = @ + 1,
               !.desk[t].shortage = @ - 1,
               !.desk[t].list = Append(@, pos),
               !.shortDesks = IF r.desk[t].shortage - 1 <= 0
                              THEN SelectSeq(@, LAMBDA x : x # t)
                              ELSE @]

\* the loop over a copy of the surplus desk's assignments
RECURSIVE SurplusPositions(_, _, _)
SurplusPositions(r, sd, snap) ==
    IF snap = << >> \/ r.shortDesks = << >> THEN r
    ELSE SurplusPositions(SurplusMove(r, sd, Head(snap)), sd, Tail(snap))

\* the loop over surplus_desks
RECURSIVE SurplusDesks(_, _)
SurplusDesks(r, sds) ==
    IF sds = << >> \/ r.shortDesks = << >> THEN r
    ELSE SurplusDesks(SurplusPositions(r, Head(sds), r.desk[Head(sds)].list),
                      Tail(sds))

Step2(r) ==
    LET r0 == [r EXCEPT !.shortDesks = DesksWhere(LAMBDA d : r.desk[d].shortage > 0)]
    IN SurplusDesks(r0, DesksWhere(LAMBDA d : r.desk[d].surplus > 0))

\* the whole resolver for one slot
OptimizeAssignmentsForShortage(asg, s) ==
    Step2(Step1_2(Step1(ResolverStart(asg, s), UnassignedOperators(asg, s), s), s)).asg

\* ---- Deferred Acceptance for one slot (MultiSlotDAMatchingAlgorithm._match_slot) ----
AvailableOps(s) == OpsWhere(LAMBDA o : can_work_slot(o, s))

\* _create_slot_preferences: a desk's ranking of the operators for a slot
DeskPreference(s) ==
    SelectSeq(AvailableOps(s), LAMBDA o : prefers_slot(o, s))
        \o SelectSeq(AvailableOps(s), LAMBDA o : ~prefers_slot(o, s))

\* _create_operator_slot_preferences: an operator's desk list for a slot
OperatorPreference(o, s) ==
    IF can_work_slot(o, s)
    THEN DesksWhere(LAMBDA d : can_work_desk(o, d))
    ELSE << >>

DAInit(s) ==
    [proposals |-> [o \in Range(AvailableOps(s)) |-> 0],
     matches |-> [o \in Range(AvailableOps(s)) |-> NoDesk],
     deskAssign |-> [d \in Desks |-> << >>],
     remaining |-> [d \in Desks |-> get_requirement_for_slot(d, s)]]

\* the occupant with the smallest rank: the comparison turned around
BestOp(occ, pref) ==
    CHOOSE w \in Range(occ) : \A x \in Range(occ) : Index(pref, w) <= Index(pref, x)

\* the occupant of a desk with the largest rank in the desk's ranking
WorstOp(occ, pref) ==
    CHOOSE w \in Range(occ) : \A x \in Range(occ) : Index(pref, x) <= Index(pref, w)

\* the proposal body without the exhausted-list test: an operator at the end of
\* its list starts again from the top
ProposeAgain(st, o, s) ==
    LET prefs == OperatorPreference(o, s)
        target == prefs[(st.proposals[o] % Len(prefs)) + 1]
        pref == DeskPreference(s)
        occ == st.deskAssign[target]
        worst == WorstOp(occ, pref)
        counted == [st EXCEPT !.proposals[o] = @ + 1]
    IN IF prefs = << >> THEN st
       ELSE IF st.remaining[target] > 0
       THEN [counted EXCEPT
                !.deskAssign[target] = Append(@, o),
                !.matches[o] = target,
                !.remaining[target] = @ - 1]
       ELSE IF occ # << >> /\ Index(pref, o) < Index(pref, worst)
       THEN [counted EXCEPT
                !.deskAssign[target] = Append(RemoveFirst(@, worst), o),
                !.matches[worst] = NoDesk,
                !.matches[o] = target]
       ELSE counted

\* the proposal body with the free-seat test loosened (remaining >= 0)
ProposeOverQuota(st, o, s) ==
    LET prefs == OperatorPreference(o, s)
        target == prefs[st.proposals[o] + 1]
        counted == [st EXCEPT !.proposals[o] = @ + 1]
    IN IF st.proposals[o] >= Len(prefs) THEN st
       ELSE IF st.remaining[target] >= 0
       THEN [counted EXCEPT
                !.deskAssign[target] = Append(@, o),
                !.matches[o] = target,
                !.remaining[target] = MaxNat(@ - 1, 0)]
       ELSE counted

\* the body of the proposal loop for one unmatched operator
Propose(st, o, s) ==
    LET prefs == OperatorPreference(o, s)
        target == prefs[st.proposals[o] + 1]
        pref == DeskPreference(s)
        occ == st.deskAssign[target]
        worst == WorstOp(occ, pref)
        counted == [st EXCEPT !.proposals[o] = @ + 1]
    IN IF st.proposals[o] >= Len(prefs) THEN st
       ELSE IF st.remaining[target] > 0
       THEN [counted EXCEPT
                !.deskAssign[target] = Append(@, o),
                !.matches[o] = target,
                !.remaining[target] = @ - 1]
       ELSE IF occ # << >> /\ Index(pref, o) < Index(pref, worst)
       THEN [counted EXCEPT
                !.deskAssign[target] = Append(RemoveFirst(@, worst), o),
                !.matches[worst] = NoDesk,
                !.matches[o] = target]
       ELSE counted

UnmatchedOps(st, s) == SelectSeq(AvailableOps(s), LAMBDA o : st.matches[o] = NoDesk)

RECURSIVE ProposeAll(_, _, _)
ProposeAll(st, ops, s) ==
    IF ops = << >> THEN st
    ELSE ProposeAll(Propose(st, Head(ops), s), Tail(ops), s)

\* one iteration of the while loop: every operator unmatched at its start proposes
DAPassResult(st, s) == ProposeAll(st, UnmatchedOps(st, s), s)

\* the Assignment objects built from matches
DAAssignments(st, s) ==
    LET matched == SelectSeq(AvailableOps(s), LAMBDA o : st.matches[o] # NoDesk)
    IN [i \in 1..Len(matched) |->
           Assignment(matched[i], st.matches[matched[i]], s, target_date)]

\* ---- RequiredBreakAfterConsecutiveSlotsConstraint ----
\* the assignments of one operator, sorted by (date, slot_id)
OperatorAssignments(asg, o) ==
    SortByDateSlot(SelectSeq(asg, LAMBDA a : a.op = o))

\* validate that does not accept a break as the relief at the limit: any
\* assignment that follows the limit is a violation
RECURSIVE ValidateScanBreakIgnored(_, _, _, _)
ValidateScanBreakIgnored(sorted, i, c, k) ==
    IF i > Len(sorted) THEN TRUE
    ELSE IF sorted[i].desk = BreakDesk THEN ValidateScanBreakIgnored(sorted, i + 1, 0, k)
    ELSE IF c + 1 >= k
         THEN IF i + 1 <= Len(sorted)
              THEN FALSE
              ELSE ValidateScanBreakIgnored(sorted, i + 1, 0, k)
         ELSE ValidateScanBreakIgnored(sorted, i + 1, c + 1, k)

\* validate with the limit test off by one (count > max instead of >=)
RECURSIVE ValidateScanOffByOne(_, _, _, _)
ValidateScanOffByOne(sorted, i, c, k) ==
    IF i > Len(sorted) THEN TRUE
    ELSE IF sorted[i].desk = BreakDesk THEN ValidateScanOffByOne(sorted, i + 1, 0, k)
    ELSE IF c + 1 > k
         THEN IF i + 1 <= Len(sorted) /\ sorted[i + 1].desk # BreakDesk
              THEN FALSE
              ELSE ValidateScanOffByOne(sorted, i + 1, 0, k)
         ELSE ValidateScanOffByOne(sorted, i + 1, c + 1, k)

\* validate, the scan of one operator's sorted assignments from position i
RECURSIVE ValidateScan(_, _, _, _)
ValidateScan(sorted, i, c, k) ==
    IF i > Len(sorted) THEN TRUE
    ELSE IF sorted[i].desk = BreakDesk THEN ValidateScan(sorted, i + 1, 0, k)
    ELSE IF c + 1 >= k
         THEN IF i + 1 <= Len(sorted) /\ sorted[i + 1].desk # BreakDesk
              THEN FALSE
              ELSE ValidateScan(sorted, i + 1, 0, k)
         ELSE ValidateScan(sorted, i + 1, c + 1, k)

\* validate(assignments, operators)
ValidateConsecutiveBreak(asg, ops, k) ==
    \A j \in DOMAIN ops : ValidateScan(OperatorAssignments(asg, ops[j]), 1, 0, k)

\* get_required_break_assignments, the scan of one operator's sorted assignments
RECURSIVE BreakScan(_, _, _, _)
BreakScan(sorted, i, c, k) ==
    IF i > Len(sorted) THEN << >>
    ELSE IF sorted[i].desk = BreakDesk THEN BreakScan(sorted, i + 1, 0, k)
    ELSE IF c + 1 >= k
         THEN LET a == sorted[i]
                  next == a.slot + 1
                  held == SelectSeq(sorted, LAMBDA b : b.slot = next /\ b.date = a.date)
                  add == /\ a.slot < NumSlots
                         /\ (held = << >> \/ Head(held).desk # BreakDesk)
              IN (IF add THEN <<Assignment(a.op, BreakDesk, next, a.date)>> ELSE << >>)
                     \o BreakScan(sorted, i + 1, 0, k)
         ELSE BreakScan(sorted, i + 1, c + 1, k)

RECURSIVE RequiredBreakAssignments(_, _, _)
RequiredBreakAssignments(asg, ops, k) ==
    IF ops = << >> THEN << >>
    ELSE BreakScan(OperatorAssignments(asg, Head(ops)), 1, 0, k)
             \o RequiredBreakAssignments(asg, Tail(ops), k)

\* ---- constraint objects ----
BreakType == "required_break_after_consecutive_slots"

MaxDaysType == "max_consecutive_days"

MinRestType == "min_rest_hours"

WeeklyType == "max_weekly_hours"

LongShiftType == "required_break_after_long_shift"

DayOffType == "required_day_off_after_night"

\* a Constraint: constraint_type.value, is_hard and the parameter of its rule
Constraint(type, hard, param) == [type |-> type, is_hard |-> hard, param |-> param]

\* the constraint list a scheduling run is configured with
ConfiguredConstraints ==
    IF hasBreak THEN <<Constraint(BreakType, TRUE, maxConsecutive)>> ELSE << >>

\* ---- RequiredDayOffAfterNightConstraint ----
\* the night test with the boundary hour left out (hour > 22)
IsNightShiftAfterBoundary(s) == SlotHour(s) > NightFrom \/ SlotHour(s) <= NightUntil

\* a slot id of the form h<hour> is a night shift from 22 o'clock and until 6
IsNightShift(s) == SlotHour(s) >= NightFrom \/ SlotHour(s) <= NightUntil

\* validate(assignments, operators)
ValidateDayOffAfterNight(asg, ops) ==
    \A j \in DOMAIN ops :
        LET mine == SelectSeq(asg, LAMBDA a : a.op = ops[j])
        IN \A i \in DOMAIN mine :
              IsNightShift(mine[i].slot) =>
                  SelectSeq(mine, LAMBDA b : b.date = mine[i].date + 1) = << >>

\* ---- MaxConsecutiveDaysConstraint ----
\* list.sort(key=date): stable insertion sort
RECURSIVE InsertByDate(_, _)
InsertByDate(sorted, a) ==
    IF sorted = << >> THEN <<a>>
    ELSE IF a.date < sorted[Len(sorted)].date
         THEN InsertByDate(SubSeq(sorted, 1, Len(sorted) - 1), a)
                  \o <<sorted[Len(sorted)]>>
         ELSE Append(sorted, a)

RECURSIVE SortByDate(_)
SortByDate(s) ==
    IF s = << >> THEN << >>
    ELSE InsertByDate(SortByDate(SubSeq(s, 1, Len(s) - 1)), s[Len(s)])

\* the loop over the sorted list from position i: consecutive_days and
\* max_consecutive
RECURSIVE DayRunScan(_, _, _, _)
DayRunScan(sorted, i, run, best) ==
    IF i > Len(sorted) THEN best
    ELSE IF sorted[i].date - sorted[i - 1].date = 1
         THEN DayRunScan(sorted, i + 1, run + 1, MaxNat(best, run + 1))
         ELSE DayRunScan(sorted, i + 1, 1, best)

\* validate(assignments, operators)
ValidateMaxConsecutiveDays(asg, ops, m) ==
    \A j \in DOMAIN ops :
        LET mine == SortByDate(SelectSeq(asg, LAMBDA a : a.op = ops[j]))
        IN mine = << >> \/ DayRunScan(mine, 2, 1, 1) <= m

\* ---- MinRestHoursConstraint ----
\* slot ids of the form h<hour> and int(slot_id[1:]) for them
HourlyIds == {"h09", "h10", "h13", "h17"}

HourOfId(id) ==
    CASE id = "h09" -> 9
      [] id = "h10" -> 10
      [] id = "h13" -> 13
      [] id = "h17" -> 17

\* slot_times of _calculate_rest_hours: (start, end) of the named slots
RestSlotTimes ==
    [morning |-> <<9, 13>>, afternoon |-> <<13, 17>>,
     evening |-> <<17, 21>>, night |-> <<22, 6>>]

\* current_end of _calculate_rest_hours
RestSlotEnd(id) ==
    IF id = "night" THEN 6
    ELSE IF id \in HourlyIds THEN HourOfId(id) + 1
    ELSE IF id \in DOMAIN RestSlotTimes THEN RestSlotTimes[id][2]
    ELSE 9 + 1

\* next_start of _calculate_rest_hours
RestSlotStart(id) ==
    IF id = "night" THEN 22
    ELSE IF id \in HourlyIds THEN HourOfId(id)
    ELSE IF id \in DOMAIN RestSlotTimes THEN RestSlotTimes[id][1]
    ELSE 9

\* _calculate_rest_hours
CalculateRestHours(current, next_shift) ==
    (RestSlotStart(next_shift.slot) - RestSlotEnd(current.slot)) % 24

\* validate(assignments, operators)
ValidateMinRestHours(asg, ops, r) ==
    \A j \in DOMAIN ops :
        LET mine == SortByDate(SelectSeq(asg, LAMBDA a : a.op = ops[j]))
        IN Len(mine) < 2 \/
           \A i \in 1..(Len(mine) - 1) :
               mine[i + 1].date - mine[i].date = 1
                   => CalculateRestHours(mine[i], mine[i + 1]) >= r

\* ---- the slot calendar (models/multi_slot_models.py) ----
TimeSlot(id, start, end, hours) ==
    [slot_id |-> id, start_time |-> start, end_time |-> end, duration_hours |-> hours]

create_default_slots ==
    <<TimeSlot("morning", 9, 12, 3), TimeSlot("afternoon", 12, 17, 5),
      TimeSlot("evening", 17, 21, 4), TimeSlot("night", 21, 9, 12)>>

\* OperatorAvailability.max_work_hours_per_day: the default of the dataclass field,
\* which convert_legacy_operators_to_multi_slot leaves as it is
max_work_hours_per_day == 8

\* MultiSlotScheduler.calculate_work_hours: the durations of the calendar slots of the
\* operator's assignments of the date; the s-th slot of a run is the s-th slot that
\* create_default_slots returns, and a slot the calendar does not hold adds nothing
calculate_work_hours(asg, o, dt) ==
    SumFrom([i \in DOMAIN asg |->
                IF /\ asg[i].op = o
                   /\ asg[i].date = dt
                   /\ asg[i].slot \in DOMAIN create_default_slots
                THEN create_default_slots[asg[i].slot].duration_hours
                ELSE 0], 1)

\* ---- MaxWeeklyHoursConstraint ----
\* slot_hours of validate: the hourly ids h09..h17 and four named slots
WeeklySlotHours(id) ==
    IF id \in HourlyIds /\ HourOfId(id) \in 9..17 THEN 1
    ELSE IF id \in {"morning", "afternoon", "evening"} THEN 4
    ELSE IF id = "night" THEN 8
    ELSE 0

\* date.weekday(): the first date of the model is a Monday
Weekday(dt) == (dt - TargetDate) % 7

\* week_start = date - timedelta(days=date.weekday())
WeekStart(dt) == dt - Weekday(dt)

\* weekly_hours[week_key] after the loop over the operator's assignments
RECURSIVE WeekHours(_, _)
WeekHours(mine, wk) ==
    IF mine = << >> THEN 0
    ELSE (IF WeekStart(Head(mine).date) = wk THEN WeeklySlotHours(Head(mine).slot) ELSE 0)
             + WeekHours(Tail(mine), wk)

\* validate(assignments, operators)
ValidateMaxWeeklyHours(asg, ops, limit) ==
    \A j \in DOMAIN ops :
        LET mine == SelectSeq(asg, LAMBDA a : a.op = ops[j])
        IN \A i \in DOMAIN mine : WeekHours(mine, WeekStart(mine[i].date)) <= limit

\* ---- RequiredBreakAfterLongShiftConstraint ----
\* slot_hours of validate: only the hourly ids h09..h17 have hours
LongShiftSlotHours(id) ==
    IF id \in HourlyIds /\ HourOfId(id) \in 9..17 THEN 1 ELSE 0

\* the hour _calculate_break_hours takes for a slot id
BreakSlotHour(id) == IF id \in HourlyIds THEN HourOfId(id) ELSE 9

\* _calculate_break_hours
CalculateBreakHours(current, next_shift) ==
    LET current_end == BreakSlotHour(current.slot) + 1
        next_start == BreakSlotHour(next_shift.slot)
    IN IF current_end <= next_start
       THEN next_start - current_end
       ELSE (24 - current_end) + next_start

\* validate(assignments, operators)
ValidateBreakAfterLongShift(asg, ops, threshold, break) ==
    \A j \in DOMAIN ops :
        LET mine == SortByDate(SelectSeq(asg, LAMBDA a : a.op = ops[j]))
        IN \A i \in DOMAIN mine :
              LongShiftSlotHours(mine[i].slot) >= threshold =>
                  LET same_day == SelectSeq(mine, LAMBDA a : a.date = mine[i].date)
                      current_index == Index(same_day, mine[i])
                  IN current_index < Len(same_day) =>
                        CalculateBreakHours(mine[i], same_day[current_index + 1]) >= break

\* ---- ConstraintValidator ----
\* constraint.validate(assignments, operators), dispatched on the constraint's class
ValidateConstraint(c, asg, ops) ==
    IF c.type = BreakType
    THEN ValidateConsecutiveBreak(asg, ops, c.param)
    ELSE ValidateDayOffAfterNight(asg, ops)

\* the key order of the results dict: every constraint name at its first use
RECURSIVE ResultNames(_, _)
ResultNames(cs, seen) ==
    IF cs = << >> THEN << >>
    ELSE IF Head(cs).type \in seen THEN ResultNames(Tail(cs), seen)
         ELSE <<Head(cs).type>> \o ResultNames(Tail(cs), seen \cup {Head(cs).type})

\* the last constraint of the list with a name: its verdict is the one the dict keeps
LastWithName(cs, name) ==
    cs[CHOOSE i \in DOMAIN cs :
          /\ cs[i].type = name
          /\ \A j \in DOMAIN cs : cs[j].type = name => j <= i]

\* the first constraint of the list with a name: next(c for c in self.constraints ...)
FirstWithName(cs, name) ==
    cs[CHOOSE i \in DOMAIN cs :
          /\ cs[i].type = name
          /\ \A j \in DOMAIN cs : cs[j].type = name => i <= j]

\* the results dict built by validate_all on a cache miss
ComputeResults(cs, asg, ops) ==
    LET names == ResultNames(cs, {})
    IN [i \in DOMAIN names |->
           [name |-> names[i],
            valid |-> ValidateConstraint(LastWithName(cs, names[i]), asg, ops)]]

\* _get_cache_key: the hash of the (date, slot_id, operator_name, desk_name) tuples
CacheKey(asg) == asg

\* validate_all: [results, cache]
ValidateAll(cs, ch, asg, ops) ==
    LET hits == {e \in ch : e.key = CacheKey(asg)}
        results == ComputeResults(cs, asg, ops)
    IN IF hits # {}
       THEN [results |-> (CHOOSE e \in hits : TRUE).results, cache |-> ch]
       ELSE [results |-> results,
             cache |-> ch \cup {[key |-> CacheKey(asg), results |-> results]}]

\* get_violations, the walk over the results from position i
RECURSIVE ViolationWalk(_, _, _)
ViolationWalk(cs, results, i) ==
    IF i > Len(results) THEN << >>
    ELSE IF results[i].valid THEN ViolationWalk(cs, results, i + 1)
    ELSE IF FirstWithName(cs, results[i].name).is_hard
         THEN <<results[i].name>>
         ELSE <<results[i].name>> \o ViolationWalk(cs, results, i + 1)

\* ---- inputs ----
\* desks whose names are all non-empty; a desk is identified by its index, and the
\* text of its name matters to the code only through its truth value
PlainDeskNames == [d \in Desks |-> "desk"]

\* the operator list in name order and in reverse name order
OperatorOrders == {[i \in 1..NumOps |-> i], [i \in 1..NumOps |-> NumOps + 1 - i]}

\* availability as produced from a (start, end) range: a prefix of the day
AvailableChoices == {1..e : e \in 1..NumSlots}

\* competence: every operator can work at least one desk of the table
CompetentChoices == SUBSET Desks \ {{}}

\* requirement tables: every desk requires 1 except at most one desk
RequirementChoices ==
    {r \in [Desks -> 0..MaxReq] : Cardinality({d \in Desks : r[d] # 1}) <= 1}

NoStatus ==
    [asg |-> << >>, desk |-> [d \in Desks |-> << >>], rbo |-> {},
     unassigned |-> << >>, shortDesks |-> << >>, log |-> << >>]

NoDA == [proposals |-> << >>, matches |-> << >>, deskAssign |-> << >>, remaining |-> << >>]

Init ==
    /\ algorithm \in {"da", "constrained"}
    /\ hasBreak \in BOOLEAN
    /\ algorithm = "da" => ~hasBreak
    /\ maxConsecutive \in 1..MaxK
    /\ ~hasBreak => maxConsecutive = 1
    /\ operators \in OperatorOrders
    /\ \E early \in AvailableChoices :
          available = [o \in Ops |-> IF o = 1 THEN early ELSE Slots]
    /\ \E home \in {{}, {1}} :
          preferred = [o \in Ops |-> IF o \in home THEN available[o] ELSE {}]
    /\ competent \in [Ops -> CompetentChoices]
    /\ requirement \in RequirementChoices
    /\ desk_names = PlainDeskNames
    /\ constraint_text = << >>
    /\ constraints_config = {}
    /\ assignments = << >>
    /\ slot = 1
    /\ pc = "match"
    /\ da = NoDA
    /\ status = NoStatus
    /\ flagged = [s \in Slots |-> {}]
    /\ breakCount = [s \in Slots |-> 0]
    /\ verdict = "none"
    /\ target_date = TargetDate
    /\ target_days = 1
    /\ all_assignments = << >>
    /\ calls = 0
    /\ constraints = ConfiguredConstraints
    /\ cache = {}
    /\ violations = << >>

\* ---- match_daily ----
\* _match_slot_with_constraints for the current slot, result appended
MatchSlot ==
    /\ pc = "match"
    /\ algorithm = "constrained"
    /\ LET rbo == RequiredBreakOperators(assignments, slot)
           count == BreakRequiredCount(rbo)
       IN /\ flagged' = [flagged EXCEPT ![slot] = rbo]
          /\ breakCount' = [breakCount EXCEPT ![slot] = count]
          /\ assignments' = assignments
                \o MatchSlotWithConstraints(assignments, slot, rbo, count)
    /\ pc' = "step1"
    /\ UNCHANGED <<inputs, days, validator, slot, da, status, verdict>>

\* _match_slot up to the first test of the while loop
DAStart ==
    /\ pc = "match"
    /\ algorithm = "da"
    /\ IF AvailableOps(slot) = << >>
       THEN pc' = "step1" /\ da' = NoDA
       ELSE pc' = "da" /\ da' = DAInit(slot)
    /\ UNCHANGED <<inputs, days, validator, assignments, slot, status, flagged, breakCount, verdict>>

\* one iteration of the while loop that does not leave it
DAPass ==
    /\ pc = "da"
    /\ UnmatchedOps(da, slot) # << >>
    /\ da' = DAPassResult(da, slot)
    /\ UNCHANGED <<inputs, days, validator, assignments, slot, pc, status, flagged, breakCount, verdict>>

\* the while loop is left: the matches become assignments
DAFinish ==
    /\ pc = "da"
    /\ UnmatchedOps(da, slot) = << >>
    /\ assignments' = assignments \o DAAssignments(da, slot)
    /\ pc' = "step1"
    /\ UNCHANGED <<inputs, days, validator, slot, da, status, flagged, breakCount, verdict>>

\* resolver: desk_status is built and step 1 runs
ResolveStep1 ==
    /\ pc = "step1"
    /\ status' = Step1(ResolverStart(assignments, slot),
                       UnassignedOperators(assignments, slot), slot)
    /\ assignments' = status'.asg
    /\ pc' = "step1_2"
    /\ UNCHANGED <<inputs, days, validator, slot, da, flagged, breakCount, verdict>>

\* resolver: step 1-2
ResolveStep1_2 ==
    /\ pc = "step1_2"
    /\ status' = Step1_2(status, slot)
    /\ assignments' = status'.asg
    /\ pc' = "step2"
    /\ UNCHANGED <<inputs, days, validator, slot, da, flagged, breakCount, verdict>>

\* resolver: step 2, then the slot loop goes on
ResolveStep2 ==
    /\ pc = "step2"
    /\ status' = Step2(status)
    /\ assignments' = status'.asg
    /\ pc' = "resolved"
    /\ UNCHANGED <<inputs, days, validator, slot, da, flagged, breakCount, verdict>>

NextSlot ==
    /\ pc = "resolved"
    /\ IF slot < NumSlots
       THEN slot' = slot + 1 /\ pc' = "match"
       ELSE slot' = slot /\ pc' = IF algorithm = "constrained" /\ hasBreak
                                  THEN "append" ELSE "done"
    /\ UNCHANGED <<inputs, days, validator, assignments, da, status, flagged, breakCount, verdict>>

\* constrained_multi_slot_da_match: the break assignments are appended
AppendBreaks ==
    /\ pc = "append"
    /\ assignments' = assignments
          \o RequiredBreakAssignments(assignments, operators, maxConsecutive)
    /\ pc' = "done"
    /\ UNCHANGED <<inputs, days, validator, slot, da, status, flagged, breakCount, verdict>>

Next ==
    \/ MatchSlot
    \/ DAStart
    \/ DAPass
    \/ DAFinish
    \/ ResolveStep1
    \/ ResolveStep1_2
    \/ ResolveStep2
    \/ NextSlot
    \/ AppendBreaks

Spec == Init /\ [][Next]_vars

\* ---- several days, one run per day (AlgorithmExecutor) ----
InitDays ==
    /\ algorithm = "constrained"
    /\ hasBreak = TRUE
    /\ maxConsecutive \in 1..MaxK
    /\ operators = [i \in 1..NumOps |-> i]
    /\ \E early \in AvailableChoices :
          available = [o \in Ops |-> IF o = 1 THEN early ELSE Slots]
    /\ \E home \in {{}, {1}} :
          preferred = [o \in Ops |-> IF o \in home THEN available[o] ELSE {}]
    /\ competent \in [Ops -> CompetentChoices]
    /\ requirement \in RequirementChoices
    /\ desk_names = PlainDeskNames
    /\ constraint_text = << >>
    /\ constraints_config = {}
    /\ assignments = << >>
    /\ slot = 1
    /\ pc = "match"
    /\ da = NoDA
    /\ status = NoStatus
    /\ flagged = [s \in Slots |-> {}]
    /\ breakCount = [s \in Slots |-> 0]
    /\ verdict = "none"
    /\ target_date = TargetDate
    /\ target_days \in 1..NumDays
    /\ all_assignments = << >>
    /\ calls = 0
    /\ constraints = ConfiguredConstraints
    /\ cache = {}
    /\ violations = << >>

\* the day's list is added to all_assignments; the next day starts from an empty list
EndDay ==
    /\ pc = "done"
    /\ all_assignments' = all_assignments \o assignments
    /\ IF target_date - TargetDate + 1 < target_days
       THEN /\ target_date' = target_date + 1
            /\ assignments' = << >>
            /\ pc' = "match"
       ELSE /\ target_date' = target_date
            /\ assignments' = assignments
            /\ pc' = "check"
    /\ slot' = 1
    /\ da' = NoDA
    /\ status' = NoStatus
    /\ flagged' = [s \in Slots |-> {}]
    /\ breakCount' = [s \in Slots |-> 0]
    /\ UNCHANGED <<inputs, target_days, calls, validator, verdict>>

\* _check_constraint_violations: a new validator is asked for the violations
CheckConstraintViolations ==
    /\ pc = "check"
    /\ LET va == ValidateAll(constraints, {}, all_assignments, operators)
       IN /\ cache' = va.cache
          /\ violations' = ViolationWalk(constraints, va.results, 1)
    /\ pc' = "checked"
    /\ UNCHANGED <<inputs, days, constraints, assignments, slot, da, status, flagged,
                   breakCount, verdict>>

NextDays ==
    \/ MatchSlot
    \/ ResolveStep1
    \/ ResolveStep1_2
    \/ ResolveStep2
    \/ NextSlot
    \/ AppendBreaks
    \/ EndDay
    \/ CheckConstraintViolations

SpecDays == InitDays /\ [][NextDays]_vars

\* ---- one constrained run of a day (match_daily, then the appended breaks) ----
NextConstrained ==
    \/ MatchSlot
    \/ ResolveStep1
    \/ ResolveStep1_2
    \/ ResolveStep2
    \/ NextSlot
    \/ AppendBreaks

\* the forced-break scenario: a single operator available all day, a single desk
\* of the table requiring 1 in every slot
InitForcedBreak ==
    /\ algorithm = "constrained"
    /\ hasBreak = TRUE
    /\ maxConsecutive \in 1..MaxK
    /\ operators = <<1>>
    /\ available = [o \in Ops |-> Slots]
    /\ \E home \in {{}, {1}} :
          preferred = [o \in Ops |-> IF o \in home THEN available[o] ELSE {}]
    /\ \E d \in Desks :
          /\ requirement = [e \in Desks |-> IF e = d THEN 1 ELSE 0]
          /\ desk_names = PlainDeskNames
          /\ constraint_text = << >>
          /\ constraints_config = {}
          /\ \E more \in SUBSET Desks :
                competent = [o \in Ops |-> {d} \cup more]
    /\ assignments = << >>
    /\ slot = 1
    /\ pc = "match"
    /\ da = NoDA
    /\ status = NoStatus
    /\ flagged = [s \in Slots |-> {}]
    /\ breakCount = [s \in Slots |-> 0]
    /\ verdict = "none"
    /\ target_date = TargetDate
    /\ target_days = 1
    /\ all_assignments = << >>
    /\ calls = 0
    /\ constraints = ConfiguredConstraints
    /\ cache = {}
    /\ violations = << >>

SpecForcedBreak == InitForcedBreak /\ [][NextConstrained]_vars

\* ---- one run of a day without constraints, by either algorithm ----
NextUnconstrained ==
    \/ MatchSlot
    \/ DAStart
    \/ DAPass
    \/ DAFinish
    \/ ResolveStep1
    \/ ResolveStep1_2
    \/ ResolveStep2
    \/ NextSlot

\* the shortage scenario: one desk requires 2 and a single operator can work it,
\* another desk requires 1 and the two other operators can work only that one;
\* one of the two arrives at some slot of the day
InitShortage ==
    /\ algorithm \in {"da", "constrained"}
    /\ hasBreak = FALSE
    /\ maxConsecutive = 1
    /\ operators \in OperatorOrders
    /\ \E late \in Ops, start \in Slots :
          available = [o \in Ops |-> IF o = late THEN start..NumSlots ELSE Slots]
    /\ \E home \in {{}, {1}} :
          preferred = [o \in Ops |-> IF o \in home THEN available[o] ELSE {}]
    /\ \E A \in Desks, B \in Desks, a \in Ops :
          /\ A # B
          /\ requirement = [d \in Desks |-> IF d = A THEN 2 ELSE IF d = B THEN 1 ELSE 0]
          /\ desk_names = PlainDeskNames
          /\ constraint_text = << >>
          /\ constraints_config = {}
          /\ competent = [o \in Ops |-> IF o = a THEN {A} ELSE {B}]
          /\ available[a] = Slots
    /\ assignments = << >>
    /\ slot = 1
    /\ pc = "match"
    /\ da = NoDA
    /\ status = NoStatus
    /\ flagged = [s \in Slots |-> {}]
    /\ breakCount = [s \in Slots |-> 0]
    /\ verdict = "none"
    /\ target_date = TargetDate
    /\ target_days = 1
    /\ all_assignments = << >>
    /\ calls = 0
    /\ constraints = ConfiguredConstraints
    /\ cache = {}
    /\ violations = << >>

SpecShortage == InitShortage /\ [][NextUnconstrained]_vars

\* ---- one run of a day by the plain algorithm (multi_slot_da_match) ----
NextDA ==
    \/ DAStart
    \/ DAPass
    \/ DAFinish
    \/ ResolveStep1
    \/ ResolveStep1_2
    \/ ResolveStep2
    \/ NextSlot

\* requirement tables whose total is n
DemandTables(n) ==
    {r \in [Desks -> 0..MaxReq] :
        SumFrom(r, 1) = n}

\* the minimal-matching scenario: the operators of the list are available all
\* day and competent for every desk, and the table's total demand is their number
InitMinimal ==
    /\ algorithm = "da"
    /\ hasBreak = FALSE
    /\ maxConsecutive = 1
    /\ \E order \in OperatorOrders, n \in 1..NumOps :
          /\ operators = Take(order, n)
          /\ requirement \in DemandTables(n)
          /\ desk_names = PlainDeskNames
          /\ constraint_text = << >>
          /\ constraints_config = {}
    /\ available = [o \in Ops |-> Slots]
    /\ \E home \in SUBSET Ops :
          preferred = [o \in Ops |-> IF o \in home THEN available[o] ELSE {}]
    /\ competent = [o \in Ops |-> Desks]
    /\ assignments = << >>
    /\ slot = 1
    /\ pc = "match"
    /\ da = NoDA
    /\ status = NoStatus
    /\ flagged = [s \in Slots |-> {}]
    /\ breakCount = [s \in Slots |-> 0]
    /\ verdict = "none"
    /\ target_date = TargetDate
    /\ target_days = 1
    /\ all_assignments = << >>
    /\ calls = 0
    /\ constraints = ConfiguredConstraints
    /\ cache = {}
    /\ violations = << >>

SpecMinimal == InitMinimal /\ [][NextDA]_vars

\* ---- the constraint check on a hand-built assignment list ----
\* (tests/test_consecutive_break_constraint.py builds such lists and validates them)
Dates == {TargetDate, TargetDate + 1}

\* the operators argument of validate
ValidatedOperators == {<<1>>, <<1, 2>>}

InitValidate ==
    /\ algorithm = "constrained"
    /\ hasBreak = TRUE
    /\ maxConsecutive \in 1..MaxK
    /\ operators \in ValidatedOperators
    /\ available = [o \in Ops |-> Slots]
    /\ preferred = [o \in Ops |-> {}]
    /\ competent = [o \in Ops |-> Desks]
    /\ requirement = [d \in Desks |-> 1]
    /\ desk_names = PlainDeskNames
    /\ constraint_text = << >>
    /\ constraints_config = {}
    /\ assignments = << >>
    /\ slot = 1
    /\ pc = "build"
    /\ da = NoDA
    /\ status = NoStatus
    /\ flagged = [s \in Slots |-> {}]
    /\ breakCount = [s \in Slots |-> 0]
    /\ verdict = "none"
    /\ target_date = TargetDate
    /\ target_days = 1
    /\ all_assignments = << >>
    /\ calls = 0
    /\ constraints = ConfiguredConstraints
    /\ cache = {}
    /\ violations = << >>

\* one more Assignment object in the list
AddAssignment ==
    /\ pc = "build"
    /\ Len(assignments) < MaxLen
    /\ \E o \in 1..2, d \in {BreakDesk, 1}, s \in Slots, dt \in Dates :
          assignments' = Append(assignments, Assignment(o, d, s, dt))
    /\ UNCHANGED <<inputs, days, validator, slot, pc, da, status, flagged, breakCount, verdict>>

\* constraint.validate(assignments, operators)
Validate ==
    /\ pc = "build"
    /\ verdict' = IF ValidateConsecutiveBreak(assignments, operators, maxConsecutive)
                  THEN "satisfied" ELSE "violated"
    /\ pc' = "validated"
    /\ UNCHANGED <<inputs, days, validator, assignments, slot, da, status, flagged, breakCount>>

NextValidate == AddAssignment \/ Validate

SpecValidate == InitValidate /\ [][NextValidate]_vars

\* ---- the constraint check on one operator's hand-built day ----
\* (test_consecutive_count_reset_after_break: worked slots, a break, worked slots)
\* one more Assignment object of operator 1, on a desk or on the break desk
AddOwnAssignment ==
    /\ pc = "build"
    /\ Len(assignments) < 2 * MaxK + 1
    /\ \E d \in {BreakDesk, 1}, s \in Slots, dt \in Dates :
          assignments' = Append(assignments, Assignment(1, d, s, dt))
    /\ UNCHANGED <<inputs, days, validator, slot, pc, da, status, flagged, breakCount, verdict>>

NextBreakReset == AddOwnAssignment \/ Validate

SpecBreakReset == InitValidate /\ [][NextBreakReset]_vars

\* ---- a day-based constraint checked on a hand-built list ----
\* (tests/test_constraints.py builds such lists from base_date on)
DayRange == TargetDate..(TargetDate + NumDays)

InitMaxDays ==
    /\ algorithm = "constrained"
    /\ hasBreak = FALSE
    /\ maxConsecutive = 1
    /\ operators \in ValidatedOperators
    /\ available = [o \in Ops |-> Slots]
    /\ preferred = [o \in Ops |-> {}]
    /\ competent = [o \in Ops |-> Desks]
    /\ requirement = [d \in Desks |-> 1]
    /\ desk_names = PlainDeskNames
    /\ constraint_text = << >>
    /\ constraints_config = {}
    /\ assignments = << >>
    /\ slot = 1
    /\ pc = "build"
    /\ da = NoDA
    /\ status = NoStatus
    /\ flagged = [s \in Slots |-> {}]
    /\ breakCount = [s \in Slots |-> 0]
    /\ verdict = "none"
    /\ target_date = TargetDate
    /\ target_days = 1
    /\ all_assignments = << >>
    /\ calls = 0
    /\ \E m \in 1..MaxRun, h \in BOOLEAN :
          constraints = <<Constraint(MaxDaysType, h, m)>>
    /\ cache = {}
    /\ violations = << >>

\* one more Assignment object in the list, on any date of the range
AddDuty ==
    /\ pc = "build"
    /\ Len(assignments) < MaxDuties
    /\ \E o \in 1..2, s \in {1, NumSlots}, dt \in DayRange :
          assignments' = Append(assignments, Assignment(o, 1, s, dt))
    /\ UNCHANGED <<inputs, days, validator, slot, pc, da, status, flagged, breakCount, verdict>>

\* constraint.validate(assignments, operators) of the configured constraint
ValidateMaxDays ==
    /\ pc = "build"
    /\ verdict' = IF ValidateMaxConsecutiveDays(assignments, operators,
                                                constraints[1].param)
                  THEN "satisfied" ELSE "violated"
    /\ pc' = "validated"
    /\ UNCHANGED <<inputs, days, validator, assignments, slot, da, status, flagged, breakCount>>

NextMaxDays == AddDuty \/ ValidateMaxDays

SpecMaxDays == InitMaxDays /\ [][NextMaxDays]_vars

\* ---- the rest constraint checked on a hand-built list ----
\* thresholds: the default 11 hours and two others
RestChoices == {3, 11, 16}

InitMinRest ==
    /\ algorithm = "constrained"
    /\ hasBreak = FALSE
    /\ maxConsecutive = 1
    /\ operators \in ValidatedOperators
    /\ available = [o \in Ops |-> Slots]
    /\ preferred = [o \in Ops |-> {}]
    /\ competent = [o \in Ops |-> Desks]
    /\ requirement = [d \in Desks |-> 1]
    /\ desk_names = PlainDeskNames
    /\ constraint_text = << >>
    /\ constraints_config = {}
    /\ assignments = << >>
    /\ slot = 1
    /\ pc = "build"
    /\ da = NoDA
    /\ status = NoStatus
    /\ flagged = [s \in Slots |-> {}]
    /\ breakCount = [s \in Slots |-> 0]
    /\ verdict = "none"
    /\ target_date = TargetDate
    /\ target_days = 1
    /\ all_assignments = << >>
    /\ calls = 0
    /\ \E r \in RestChoices : constraints = <<Constraint(MinRestType, TRUE, r)>>
    /\ cache = {}
    /\ violations = << >>

\* one more Assignment object in the list: an hourly or a named slot, any date
AddShiftAt ==
    /\ pc = "build"
    /\ Len(assignments) < MaxLen
    /\ \E o \in 1..2, id \in {"h09", "h17", "morning", "night", "lunch"},
          dt \in DayRange :
          assignments' = Append(assignments, Assignment(o, 1, id, dt))
    /\ UNCHANGED <<inputs, days, validator, slot, pc, da, status, flagged, breakCount, verdict>>

\* constraint.validate(assignments, operators) of the configured constraint
ValidateMinRest ==
    /\ pc = "build"
    /\ verdict' = IF ValidateMinRestHours(assignments, operators, constraints[1].param)
                  THEN "satisfied" ELSE "violated"
    /\ pc' = "validated"
    /\ UNCHANGED <<inputs, days, validator, assignments, slot, da, status, flagged, breakCount>>

NextMinRest == AddShiftAt \/ ValidateMinRest

SpecMinRest == InitMinRest /\ [][NextMinRest]_vars

\* ---- the weekly-hours constraint checked on a hand-built list ----
\* a Monday, the Sunday of its week and the Monday after
WeekDates == {TargetDate, TargetDate + 6, TargetDate + 7}

\* weekly maxima, in hours
WeeklyChoices == {8, 10, 16}

InitWeekly ==
    /\ algorithm = "constrained"
    /\ hasBreak = FALSE
    /\ maxConsecutive = 1
    /\ operators \in ValidatedOperators
    /\ available = [o \in Ops |-> Slots]
    /\ preferred = [o \in Ops |-> {}]
    /\ competent = [o \in Ops |-> Desks]
    /\ requirement = [d \in Desks |-> 1]
    /\ desk_names = PlainDeskNames
    /\ constraint_text = << >>
    /\ constraints_config = {}
    /\ assignments = << >>
    /\ slot = 1
    /\ pc = "build"
    /\ da = NoDA
    /\ status = NoStatus
    /\ flagged = [s \in Slots |-> {}]
    /\ breakCount = [s \in Slots |-> 0]
    /\ verdict = "none"
    /\ target_date = TargetDate
    /\ target_days = 1
    /\ all_assignments = << >>
    /\ calls = 0
    /\ \E w \in WeeklyChoices : constraints = <<Constraint(WeeklyType, TRUE, w)>>
    /\ cache = {}
    /\ violations = << >>

\* one more Assignment object in the list: a slot of the calendar on a date
AddCalendarShift ==
    /\ pc = "build"
    /\ Len(assignments) < MaxLen
    /\ \E o \in 1..2, i \in DOMAIN create_default_slots, dt \in WeekDates :
          assignments' = Append(assignments,
                                Assignment(o, 1, create_default_slots[i].slot_id, dt))
    /\ UNCHANGED <<inputs, days, validator, slot, pc, da, status, flagged, breakCount, verdict>>

\* constraint.validate(assignments, operators) of the configured constraint
ValidateWeekly ==
    /\ pc = "build"
    /\ verdict' = IF ValidateMaxWeeklyHours(assignments, operators, constraints[1].param)
                  THEN "satisfied" ELSE "violated"
    /\ pc' = "validated"
    /\ UNCHANGED <<inputs, days, validator, assignments, slot, da, status, flagged, breakCount>>

NextWeekly == AddCalendarShift \/ ValidateWeekly

SpecWeekly == InitWeekly /\ [][NextWeekly]_vars

\* ---- the long-shift constraint checked on a hand-built list ----
\* (threshold, break) pairs: the defaults 5 and 1, and a threshold an hourly slot reaches
LongShiftChoices ==
    {[threshold |-> 5, break |-> 1], [threshold |-> 1, break |-> 1],
     [threshold |-> 1, break |-> 2]}

InitLongShift ==
    /\ algorithm = "constrained"
    /\ hasBreak = FALSE
    /\ maxConsecutive = 1
    /\ operators \in ValidatedOperators
    /\ available = [o \in Ops |-> Slots]
    /\ preferred = [o \in Ops |-> {}]
    /\ competent = [o \in Ops |-> Desks]
    /\ requirement = [d \in Desks |-> 1]
    /\ desk_names = PlainDeskNames
    /\ constraint_text = << >>
    /\ constraints_config = {}
    /\ assignments = << >>
    /\ slot = 1
    /\ pc = "build"
    /\ da = NoDA
    /\ status = NoStatus
    /\ flagged = [s \in Slots |-> {}]
    /\ breakCount = [s \in Slots |-> 0]
    /\ verdict = "none"
    /\ target_date = TargetDate
    /\ target_days = 1
    /\ all_assignments = << >>
    /\ calls = 0
    /\ \E p \in LongShiftChoices : constraints = <<Constraint(LongShiftType, TRUE, p)>>
    /\ cache = {}
    /\ violations = << >>

\* one more Assignment object in the list: an hourly or a calendar slot
AddDayShift ==
    /\ pc = "build"
    /\ Len(assignments) < MaxLen
    /\ \E o \in 1..2, id \in {"h09", "h10", "h13", "afternoon", "evening", "night"},
          dt \in Dates :
          assignments' = Append(assignments, Assignment(o, 1, id, dt))
    /\ UNCHANGED <<inputs, days, validator, slot, pc, da, status, flagged, breakCount, verdict>>

\* constraint.validate(assignments, operators) of the configured constraint
ValidateLongShift ==
    /\ pc = "build"
    /\ verdict' = IF ValidateBreakAfterLongShift(assignments, operators,
                                                 constraints[1].param.threshold,
                                                 constraints[1].param.break)
                  THEN "satisfied" ELSE "violated"
    /\ pc' = "validated"
    /\ UNCHANGED <<inputs, days, validator, assignments, slot, da, status, flagged, breakCount>>

NextLongShift == AddDayShift \/ ValidateLongShift

SpecLongShift == InitLongShift /\ [][NextLongShift]_vars

\* ---- Assignment.__post_init__ on the way through the constrained algorithm ----
\* the name of a desk: a desk of the requirement table carries its own, the break
\* desk is named by the algorithm
DeskName(d) == IF d \in Desks THEN desk_names[d] ELSE "break"

\* operator names and slot ids are non-empty in every input of this model
OperatorName(o) == "operator"

SlotId(s) == "slot"

\* __post_init__ raises ValueError when one of the three names is empty
PostInitRaises(a) ==
    \/ OperatorName(a.op) = ""
    \/ DeskName(a.desk) = ""
    \/ SlotId(a.slot) = ""

\* the Assignment objects a step constructs are the ones it appends to the list;
\* an entry whose desk_name it assigns to is not constructed again
ConstructedBy(before, after) ==
    {after[i] : i \in (Len(before) + 1)..Len(after)}

\* the list the current step of the slot's processing leaves when no constructor raises
StepResult ==
    CASE pc = "match" ->
           LET rbo == RequiredBreakOperators(assignments, slot)
           IN assignments
                \o MatchSlotWithConstraints(assignments, slot, rbo, BreakRequiredCount(rbo))
      [] pc = "step1" ->
           Step1(ResolverStart(assignments, slot),
                 UnassignedOperators(assignments, slot), slot).asg
      [] pc = "step1_2" -> Step1_2(status, slot).asg
      [] pc = "step2" -> Step2(status).asg
      [] pc = "append" ->
           assignments \o RequiredBreakAssignments(assignments, operators, maxConsecutive)
      [] OTHER -> assignments

\* a constructor of the step raises: the exception leaves match_daily and no list
\* is returned
ConstructionError ==
    /\ pc \in {"match", "step1", "step1_2", "step2", "append"}
    /\ \E a \in ConstructedBy(assignments, StepResult) : PostInitRaises(a)
    /\ pc' = "raised"
    /\ assignments' = << >>
    /\ UNCHANGED <<inputs, days, validator, slot, da, status, flagged, breakCount, verdict>>

\* a step whose constructors all succeed
ConstructionSucceeds ==
    \A a \in ConstructedBy(assignments, StepResult) : ~PostInitRaises(a)

NextNamed ==
    \/ ConstructionSucceeds /\ MatchSlot
    \/ ConstructionSucceeds /\ ResolveStep1
    \/ ConstructionSucceeds /\ ResolveStep1_2
    \/ ConstructionSucceeds /\ ResolveStep2
    \/ NextSlot
    \/ ConstructionSucceeds /\ AppendBreaks
    \/ ConstructionError

\* desk tables in which at most one desk has the empty string as its name
NameChoices ==
    {PlainDeskNames} \cup
    {[d \in Desks |-> IF d = e THEN "" ELSE "desk"] : e \in Desks}

InitNamed ==
    /\ algorithm = "constrained"
    /\ hasBreak \in BOOLEAN
    /\ maxConsecutive \in 1..MaxK
    /\ ~hasBreak => maxConsecutive = 1
    /\ operators \in OperatorOrders
    /\ available = [o \in Ops |-> Slots]
    /\ preferred = [o \in Ops |-> {}]
    /\ competent \in [Ops -> CompetentChoices]
    /\ requirement = [d \in Desks |-> 1]
    /\ desk_names \in NameChoices
    /\ constraint_text = << >>
    /\ constraints_config = {}
    /\ assignments = << >>
    /\ slot = 1
    /\ pc = "match"
    /\ da = NoDA
    /\ status = NoStatus
    /\ flagged = [s \in Slots |-> {}]
    /\ breakCount = [s \in Slots |-> 0]
    /\ verdict = "none"
    /\ target_date = TargetDate
    /\ target_days = 1
    /\ all_assignments = << >>
    /\ calls = 0
    /\ constraints = ConfiguredConstraints
    /\ cache = {}
    /\ violations = << >>

SpecNamed == InitNamed /\ [][NextNamed]_vars

\* ---- ConstraintParser ----
NightShiftsType == "max_night_shifts_per_week"

\* a line of constraint text: whether it starts with '#', the key it carries and
\* its value. The value forms: "int" is n, "float" is n.5, "pair" is n, 1,
\* "word" holds no digit, "none" is a key without separator and value
ValueForms == {"int", "float", "pair", "word", "none"}

TextLine(comment, key, form, n) ==
    [comment |-> comment, key |-> key, form |-> form, n |-> n]

\* float(text) of a captured number: its whole part and whether .5 follows
Float(n, half) == [whole |-> n, half |-> half]

\* the patterns of parse_constraints in their order, each with the shape of its
\* capture groups: (\d+), (\d+(?:\.\d+)?) or two of the latter around a comma
ParserPatterns ==
    << [key |-> MaxDaysType, takes |-> "int"],
       [key |-> WeeklyType, takes |-> "float"],
       [key |-> NightShiftsType, takes |-> "int"],
       [key |-> LongShiftType, takes |-> "pair"],
       [key |-> BreakType, takes |-> "int"] >>

\* re.finditer finds the pattern in the line: the key followed by ':' or '=' and
\* a value that begins as the capture groups demand; what precedes the key on the
\* line (a '#') and what follows the captured text are not looked at
PatternMatches(p, line) ==
    /\ line.key = p.key
    /\ IF p.takes = "pair" THEN line.form = "pair"
       ELSE line.form \in {"int", "float", "pair"}

\* the constraint the pattern's parse function builds from the match
ParsedConstraint(p, line) ==
    CASE p.takes = "int" -> Constraint(p.key, TRUE, line.n)
      [] p.takes = "float" -> Constraint(p.key, TRUE, Float(line.n, line.form = "float"))
      [] p.takes = "pair" ->
            Constraint(p.key, TRUE,
                       [threshold |-> Float(line.n, FALSE), break |-> Float(1, FALSE)])

\* the matches of one pattern in the text, in text order
RECURSIVE PatternConstraints(_, _, _)
PatternConstraints(p, text, i) ==
    IF i > Len(text) THEN << >>
    ELSE (IF PatternMatches(p, text[i]) THEN <<ParsedConstraint(p, text[i])>> ELSE << >>)
         \o PatternConstraints(p, text, i + 1)

\* parse_constraints: pattern after pattern, every match becomes a constraint
RECURSIVE ParseFrom(_, _)
ParseFrom(text, k) ==
    IF k > Len(ParserPatterns) THEN << >>
    ELSE PatternConstraints(ParserPatterns[k], text, 1) \o ParseFrom(text, k + 1)

parse_constraints(text) == ParseFrom(text, 1)

\* the keys of the configuration surface
ConfigurationKeys ==
    {MinRestType, MaxDaysType, WeeklyType, NightShiftsType, DayOffType,
     LongShiftType, BreakType}

InitParser ==
    /\ algorithm = "constrained"
    /\ hasBreak = FALSE
    /\ maxConsecutive = 1
    /\ operators = << >>
    /\ available = [o \in Ops |-> Slots]
    /\ preferred = [o \in Ops |-> {}]
    /\ competent = [o \in Ops |-> Desks]
    /\ requirement = [d \in Desks |-> 1]
    /\ desk_names = PlainDeskNames
    /\ constraint_text = << >>
    /\ constraints_config = {}
    /\ assignments = << >>
    /\ slot = 1
    /\ pc = "text"
    /\ da = NoDA
    /\ status = NoStatus
    /\ flagged = [s \in Slots |-> {}]
    /\ breakCount = [s \in Slots |-> 0]
    /\ verdict = "none"
    /\ target_date = TargetDate
    /\ target_days = 1
    /\ all_assignments = << >>
    /\ calls = 0
    /\ constraints = << >>
    /\ cache = {}
    /\ violations = << >>

\* one more line of constraint text
AddLine ==
    /\ pc = "text"
    /\ Len(constraint_text) < MaxLen
    /\ \E comment \in BOOLEAN, key \in ConfigurationKeys, form \in ValueForms :
          constraint_text' = Append(constraint_text, TextLine(comment, key, form, MaxK))
    /\ UNCHANGED <<algorithm, hasBreak, maxConsecutive, operators, available, preferred,
                   competent, requirement, desk_names, constraints_config, days,
                   validator, assignments, slot, pc, da, status, flagged, breakCount, verdict>>

\* ConstraintParser().parse_constraints(constraint_text)
ParseConstraints ==
    /\ pc = "text"
    /\ constraints' = parse_constraints(constraint_text)
    /\ pc' = "parsed"
    /\ UNCHANGED <<inputs, days, cache, violations, assignments, slot, da, status,
                   flagged, breakCount, verdict>>

NextParser == AddLine \/ ParseConstraints

SpecParser == InitParser /\ [][NextParser]_vars

\* ---- ConstraintManager: from the configuration to the algorithm's constraints ----
\* the values of DEFAULT_CONSTRAINTS, the configuration a ConstraintManager starts with
ConfiguredValue(key) ==
    CASE key = MinRestType -> 11
      [] key = MaxDaysType -> 6
      [] key = WeeklyType -> 40
      [] key = NightShiftsType -> 2
      [] key = DayOffType -> TRUE
      [] key = LongShiftType -> [threshold |-> 5, break |-> 1]
      [] key = BreakType -> 5

\* the order in which create_constraints tests the enable flags
ConfigurationOrder ==
    <<MinRestType, MaxDaysType, WeeklyType, NightShiftsType, DayOffType,
      LongShiftType, BreakType>>

create_default_constraints ==
    <<Constraint(MaxDaysType, TRUE, 6), Constraint(WeeklyType, TRUE, 40),
      Constraint(NightShiftsType, TRUE, 2),
      Constraint(LongShiftType, TRUE, [threshold |-> 5, break |-> 1]),
      Constraint(BreakType, TRUE, 5)>>

\* the list built from the enable flags, one constraint per enabled key
RECURSIVE EnabledConstraints(_, _)
EnabledConstraints(config, k) ==
    IF k > Len(ConfigurationOrder) THEN << >>
    ELSE (IF ConfigurationOrder[k] \in config
          THEN <<Constraint(ConfigurationOrder[k], TRUE, ConfiguredValue(ConfigurationOrder[k]))>>
          ELSE << >>)
         \o EnabledConstraints(config, k + 1)

\* create_constraints without the test of the empty list
CreateConstraintsNoFallback(config) == EnabledConstraints(config, 1)

\* create_constraints: the built list, or the default set when it is empty
create_constraints(config) ==
    IF EnabledConstraints(config, 1) = << >>
    THEN create_default_constraints
    ELSE EnabledConstraints(config, 1)

\* an optional list argument: None, or a list
None == [given |-> FALSE, list |-> << >>]

Some(list) == [given |-> TRUE, list |-> list]

\* constraints or []
OrEmpty(arg) == IF ~arg.given \/ arg.list = << >> THEN << >> ELSE arg.list

\* the RequiredBreakAfterConsecutiveSlots constraints of a list
BreakConstraints(list) == {i \in DOMAIN list : list[i].type = BreakType}

InitConfiguration ==
    /\ algorithm = "constrained"
    /\ hasBreak = FALSE
    /\ maxConsecutive = 1
    /\ operators = << >>
    /\ available = [o \in Ops |-> Slots]
    /\ preferred = [o \in Ops |-> {}]
    /\ competent = [o \in Ops |-> Desks]
    /\ requirement = [d \in Desks |-> 1]
    /\ desk_names = PlainDeskNames
    /\ constraint_text = << >>
    /\ constraints_config \in SUBSET ConfigurationKeys
    /\ assignments = << >>
    /\ slot = 1
    /\ pc = "configuration"
    /\ da = NoDA
    /\ status = NoStatus
    /\ flagged = [s \in Slots |-> {}]
    /\ breakCount = [s \in Slots |-> 0]
    /\ verdict = "none"
    /\ target_date = TargetDate
    /\ target_days = 1
    /\ all_assignments = << >>
    /\ calls = 0
    /\ constraints = << >>
    /\ cache = {}
    /\ violations = << >>

\* ConstraintManager.create_constraints()
CreateConstraints ==
    /\ pc = "configuration"
    /\ constraints' = create_constraints(constraints_config)
    /\ pc' = "created"
    /\ UNCHANGED <<inputs, days, cache, violations, assignments, slot, da, status,
                   flagged, breakCount, verdict>>

\* ConstrainedMultiSlotDAMatchingAlgorithm(slots, desks, arg): self.constraints and
\* the consecutive-slots constraint the matcher looks up in it
Construct(arg) ==
    /\ constraints' = OrEmpty(arg)
    /\ hasBreak' = (BreakConstraints(constraints') # {})
    /\ maxConsecutive' = IF hasBreak'
                         THEN constraints'[Min(BreakConstraints(constraints'))].param
                         ELSE maxConsecutive
    /\ UNCHANGED <<algorithm, operators, available, preferred, competent, requirement,
                   desk_names, constraint_text, constraints_config, days, cache,
                   violations, assignments, slot, da, status, flagged, breakCount,
                   verdict>>

\* the executor hands the manager's list to constrained_multi_slot_da_match
ExecuteConfigured ==
    /\ pc = "created"
    /\ Construct(Some(constraints))
    /\ pc' = "constructed"

\* a caller that has enabled no constraint calls constrained_multi_slot_da_match
\* itself, with None or with an empty list
ExecuteDirectly ==
    /\ pc = "configuration"
    /\ constraints_config = {}
    /\ \E arg \in {None, Some(<< >>)} : Construct(arg)
    /\ pc' = "constructed_directly"

NextConfiguration == CreateConstraints \/ ExecuteConfigured \/ ExecuteDirectly

SpecConfiguration == InitConfiguration /\ [][NextConfiguration]_vars

\* ---- several calls of constrained_multi_slot_da_match, each for a chosen date ----
\* every call builds its own algorithm object, slots, desks and operators
InitCalls ==
    /\ algorithm = "constrained"
    /\ hasBreak = TRUE
    /\ maxConsecutive \in 1..MaxK
    /\ operators = [i \in 1..NumOps |-> i]
    /\ \E early \in AvailableChoices :
          available = [o \in Ops |-> IF o = 1 THEN early ELSE Slots]
    /\ preferred = [o \in Ops |-> {}]
    /\ competent \in [Ops -> CompetentChoices]
    /\ requirement \in RequirementChoices
    /\ desk_names = PlainDeskNames
    /\ constraint_text = << >>
    /\ constraints_config = {}
    /\ assignments = << >>
    /\ slot = 1
    /\ pc = "match"
    /\ da = NoDA
    /\ status = NoStatus
    /\ flagged = [s \in Slots |-> {}]
    /\ breakCount = [s \in Slots |-> 0]
    /\ verdict = "none"
    /\ target_date \in Dates
    /\ target_days = 1
    /\ all_assignments = << >>
    /\ calls = 0
    /\ constraints = ConfiguredConstraints
    /\ cache = {}
    /\ violations = << >>

\* the call returns its list; the next call is made with the same slots, desks,
\* requirements, operators and constraints, for a date of the caller's choice
CallAgain ==
    /\ pc = "done"
    /\ calls + 1 < MaxCalls
    /\ calls' = calls + 1
    /\ all_assignments' = all_assignments \o assignments
    /\ target_date' \in Dates
    /\ assignments' = << >>
    /\ slot' = 1
    /\ pc' = "match"
    /\ da' = NoDA
    /\ status' = NoStatus
    /\ flagged' = [s \in Slots |-> {}]
    /\ breakCount' = [s \in Slots |-> 0]
    /\ UNCHANGED <<inputs, target_days, validator, verdict>>

NextCalls ==
    \/ MatchSlot
    \/ ResolveStep1
    \/ ResolveStep1_2
    \/ ResolveStep2
    \/ NextSlot
    \/ AppendBreaks
    \/ CallAgain

SpecCalls == InitCalls /\ [][NextCalls]_vars

\* ---- the resolver called on a given per-slot assignment set ----
\* the given set: every operator holds at most one desk of the table, competent
\* for it or not
GivenAssignments(held) ==
    LET Entry(o) == IF held[o] = NoDesk THEN << >>
                    ELSE <<Assignment(o, held[o], 1, TargetDate)>>
        RECURSIVE From(_)
        From(o) == IF o > NumOps THEN << >> ELSE Entry(o) \o From(o + 1)
    IN From(1)

InitResolver ==
    /\ algorithm = "constrained"
    /\ hasBreak = FALSE
    /\ maxConsecutive = 1
    /\ operators = [i \in 1..NumOps |-> i]
    /\ available = [o \in Ops |-> Slots]
    /\ preferred = [o \in Ops |-> {}]
    /\ competent \in [Ops -> CompetentChoices]
    /\ requirement \in RequirementChoices
    /\ desk_names = PlainDeskNames
    /\ constraint_text = << >>
    /\ constraints_config = {}
    /\ \E held \in [Ops -> Desks \cup {NoDesk}] : assignments = GivenAssignments(held)
    /\ slot = 1
    /\ pc = "step1"
    /\ da = NoDA
    /\ status = NoStatus
    /\ flagged = [s \in Slots |-> {}]
    /\ breakCount = [s \in Slots |-> 0]
    /\ verdict = "none"
    /\ target_date = TargetDate
    /\ target_days = 1
    /\ all_assignments = << >>
    /\ calls = 0
    /\ constraints = << >>
    /\ cache = {}
    /\ violations = << >>

NextResolver == ResolveStep1 \/ ResolveStep1_2 \/ ResolveStep2

SpecResolver == InitResolver /\ [][NextResolver]_vars

\* ---- the round trip: remediation of a hand-built list, then validation ----
\* the break assignments of get_required_break_assignments are added to the list
Remediate ==
    /\ pc = "build"
    /\ assignments' = assignments \o
           RequiredBreakAssignments(assignments, operators, maxConsecutive)
    /\ pc' = "remediated"
    /\ UNCHANGED <<inputs, days, validator, slot, da, status, flagged, breakCount, verdict>>

\* constraint.validate on the remediated list
Revalidate ==
    /\ pc = "remediated"
    /\ verdict' = IF ValidateConsecutiveBreak(assignments, operators, maxConsecutive)
                  THEN "satisfied" ELSE "violated"
    /\ pc' = "revalidated"
    /\ UNCHANGED <<inputs, days, validator, assignments, slot, da, status, flagged, breakCount>>

NextRoundTrip == AddAssignment \/ Remediate \/ Revalidate

SpecRoundTrip == InitValidate /\ [][NextRoundTrip]_vars

\* ---- a validator asked for the violations of a hand-built list ----
NightSlot == NightFrom - FirstHour + 1

ConstraintChoices ==
    {Constraint(BreakType, h, k) : h \in BOOLEAN, k \in 1..MaxK}
        \cup {Constraint(DayOffType, h, 0) : h \in BOOLEAN}

ConstraintLists == UNION {[1..n -> ConstraintChoices] : n \in 0..MaxConstraints}

InitValidator ==
    /\ algorithm = "constrained"
    /\ hasBreak = TRUE
    /\ maxConsecutive = 1
    /\ operators \in ValidatedOperators
    /\ available = [o \in Ops |-> Slots]
    /\ preferred = [o \in Ops |-> {}]
    /\ competent = [o \in Ops |-> Desks]
    /\ requirement = [d \in Desks |-> 1]
    /\ desk_names = PlainDeskNames
    /\ constraint_text = << >>
    /\ constraints_config = {}
    /\ assignments = << >>
    /\ slot = 1
    /\ pc = "build"
    /\ da = NoDA
    /\ status = NoStatus
    /\ flagged = [s \in Slots |-> {}]
    /\ breakCount = [s \in Slots |-> 0]
    /\ verdict = "none"
    /\ target_date = TargetDate
    /\ target_days = 1
    /\ all_assignments = << >>
    /\ calls = 0
    /\ constraints \in ConstraintLists
    /\ cache = {}
    /\ violations = << >>

\* one more Assignment object, in a day slot or a night slot
AddShift ==
    /\ pc = "build"
    /\ Len(assignments) < MaxShifts
    /\ \E o \in 1..2, d \in {BreakDesk, 1}, s \in {1, NightSlot}, dt \in Dates :
          assignments' = Append(assignments, Assignment(o, d, s, dt))
    /\ UNCHANGED <<inputs, days, validator, slot, pc, da, status, flagged, breakCount,
                   verdict>>

\* validator.get_violations(assignments, operators)
GetViolations ==
    /\ pc = "build"
    /\ LET va == ValidateAll(constraints, cache, assignments, operators)
       IN /\ cache' = va.cache
          /\ violations' = ViolationWalk(constraints, va.results, 1)
    /\ pc' = "reported"
    /\ UNCHANGED <<inputs, days, constraints, assignments, slot, da, status, flagged,
                   breakCount, verdict>>

NextValidator == AddShift \/ GetViolations

SpecValidator == InitValidator /\ [][NextValidator]_vars

\* ---- a sequence of validate_all and clear_cache calls on one validator ----
\* constraint lists that hold each constraint type at most once
DistinctConstraintLists ==
    {cs \in ConstraintLists : \A i, j \in DOMAIN cs : cs[i].type = cs[j].type => i = j}

InitCache ==
    /\ algorithm = "constrained"
    /\ hasBreak = TRUE
    /\ maxConsecutive = 1
    /\ operators \in ValidatedOperators
    /\ available = [o \in Ops |-> Slots]
    /\ preferred = [o \in Ops |-> {}]
    /\ competent = [o \in Ops |-> Desks]
    /\ requirement = [d \in Desks |-> 1]
    /\ desk_names = PlainDeskNames
    /\ constraint_text = << >>
    /\ constraints_config = {}
    /\ assignments = << >>
    /\ slot = 1
    /\ pc = "build"
    /\ da = NoDA
    /\ status = NoStatus
    /\ flagged = [s \in Slots |-> {}]
    /\ breakCount = [s \in Slots |-> 0]
    /\ verdict = << >>
    /\ target_date = TargetDate
    /\ target_days = 1
    /\ all_assignments = << >>
    /\ calls = 0
    /\ constraints \in DistinctConstraintLists
    /\ cache = {}
    /\ violations = << >>

\* validator.validate_all(assignments, operators): the returned dict is kept in verdict
CallValidateAll ==
    /\ pc = "build"
    /\ calls < MaxCalls
    /\ \E ops \in ValidatedOperators :
          LET va == ValidateAll(constraints, cache, assignments, ops)
          IN /\ operators' = ops
             /\ cache' = va.cache
             /\ verdict' = va.results
    /\ calls' = calls + 1
    /\ UNCHANGED <<algorithm, hasBreak, maxConsecutive, available, preferred, competent,
                   requirement, desk_names, constraint_text, constraints_config,
                   target_date, target_days, all_assignments, constraints, violations,
                   assignments, slot, pc, da, status, flagged, breakCount>>

\* validator.clear_cache()
ClearCache ==
    /\ pc = "build"
    /\ cache # {}
    /\ cache' = {}
    /\ UNCHANGED <<inputs, days, constraints, violations, assignments, slot, pc, da,
                   status, flagged, breakCount, verdict>>

NextCache == AddShift \/ CallValidateAll \/ ClearCache

SpecCache == InitCache /\ [][NextCache]_vars

\* ---- properties ----
\* no (operator_name, slot_id, date) triple appears twice in a list
NoDuplicateTriple(asg) ==
    \A i, j \in DOMAIN asg :
        i # j => <<asg[i].op, asg[i].slot, asg[i].date>>
                     # <<asg[j].op, asg[j].slot, asg[j].date>>

\* C1: the assignment list returned by a scheduling run (matching and resolver
\* for every slot, break assignments appended) holds no (operator, slot, date)
\* triple twice.
C1_Uniqueness == pc = "done" => NoDuplicateTriple(assignments)

\* number of assignments of a list to desk d in slot s
CountOn(asg, d, s) ==
    Cardinality({i \in DOMAIN asg : asg[i].desk = d /\ asg[i].slot = s})

\* the slots already matched and resolved
Processed == {s \in Slots : s < slot \/ (s = slot /\ pc \in {"resolved", "append", "done"})}

\* C2: after a slot has been matched and resolved, no desk holds more assignments
\* in that slot than its required count (the break desk: than the count the
\* matcher used); desks may be short.
C2_QuotaRespect ==
    pc \in {"match", "da", "step1", "step1_2", "step2", "resolved"} =>
        \A s \in Processed :
            /\ \A d \in Desks : CountOn(assignments, d, s) <= get_requirement_for_slot(d, s)
            /\ CountOn(assignments, BreakDesk, s) <= breakCount[s]

\* a slot was resolved with a chained move made and a desk left short
C2_Witness ==
    /\ pc = "resolved"
    /\ status.log # << >>
    /\ \E d \in Desks : CountOn(assignments, d, slot) < get_requirement_for_slot(d, slot)
    /\ \E d \in Desks : /\ get_requirement_for_slot(d, slot) > 1
                        /\ CountOn(assignments, d, slot) = get_requirement_for_slot(d, slot)

\* every available operator is matched or has proposed to every desk of its list
AllSettled ==
    \A o \in Range(AvailableOps(slot)) :
        \/ da.matches[o] # NoDesk
        \/ da.proposals[o] >= Len(OperatorPreference(o, slot))

\* C3: the Deferred Acceptance run of a slot terminates: once every operator is
\* matched or has been rejected by every desk of its list, the proposal loop is
\* left (unmatched operators stay unassigned).
C3_Terminates == (pc = "da" /\ AllSettled) => UnmatchedOps(da, slot) = << >>

\* operator o strictly prefers desk d to the desk it holds
Prefers(o, d, s) ==
    LET prefs == OperatorPreference(o, s)
    IN /\ Index(prefs, d) # 0
       /\ \/ da.matches[o] = NoDesk
          \/ Index(prefs, d) < Index(prefs, da.matches[o])

\* desk d ranks operator o above one of its occupants
DeskPrefers(d, o, s) ==
    \E x \in Range(da.deskAssign[d]) :
        Index(DeskPreference(s), o) < Index(DeskPreference(s), x)

\* C4: when the Deferred Acceptance run of a slot has finished (every operator
\* matched, or rejected by every desk of its list) there is no blocking pair: no
\* operator prefers a desk to its own outcome while that desk ranks it above one
\* of its occupants.
C4_Stability ==
    (pc = "da" /\ AllSettled) =>
        \A o \in Range(AvailableOps(slot)) : \A d \in Desks :
            ~(Prefers(o, d, slot) /\ DeskPrefers(d, o, slot))

\* a finished run in which an occupant was displaced and holds a later choice
C4_Witness ==
    /\ pc = "da"
    /\ UnmatchedOps(da, slot) = << >>
    /\ \E o \in Range(AvailableOps(slot)) : \E d \in Desks :
          /\ Prefers(o, d, slot)
          /\ da.deskAssign[d] # << >>
          /\ da.proposals[o] >= 2
          /\ \E x \in Range(da.deskAssign[d]) : x # o /\ prefers_slot(x, slot)

\* the slots whose matching step has run
Matched == {s \in Slots : s < slot \/ (s = slot /\ pc \notin {"match", "da"})}

\* C5: in every matched slot, after matching and after every resolver phase, an
\* operator flagged break-required for the slot holds no assignment to a normal
\* desk and an operator that is not flagged holds no assignment to the break desk.
C5_BreakSeparation ==
    pc # "done" =>
        \A i \in DOMAIN assignments :
            assignments[i].slot \in Matched =>
                (assignments[i].op \in flagged[assignments[i].slot]
                    <=> assignments[i].desk = BreakDesk)

\* a slot resolved with an operator on break and a chained move made among the others
C5_Witness ==
    /\ pc = "resolved"
    /\ hasBreak
    /\ flagged[slot] # {}
    /\ \E i \in DOMAIN assignments :
          assignments[i].slot = slot /\ assignments[i].desk = BreakDesk
    /\ status.log # << >>
    /\ \E i \in DOMAIN assignments :
          /\ assignments[i].slot = slot
          /\ assignments[i].desk # BreakDesk
          /\ assignments[i].op \notin flagged[slot]

\* C6: every assignment to a normal desk, made by matching or made or moved by a
\* resolver phase, is for a desk of the operator's competent set.
C6_Competence ==
    \A i \in DOMAIN assignments :
        assignments[i].desk # BreakDesk =>
            can_work_desk(assignments[i].op, assignments[i].desk)

\* the chained phase has moved a donor and seated an idle operator
C6_Witness ==
    /\ pc = "step2"
    /\ status.log # << >>
    /\ \E i \in DOMAIN assignments :
          /\ assignments[i].op = status.log[1].donor
          /\ assignments[i].desk = status.log[1].to
          /\ assignments[i].slot = slot

\* number of chained moves made on behalf of idle operator o
ChainMoves(o) == Cardinality({i \in DOMAIN status.log : status.log[i].idle = o})

\* C7: in the chained phase each remaining idle operator causes at most one donor
\* move and receives at most one new assignment.
C7_SingleHop ==
    pc \in {"step2", "resolved"} =>
        \A o \in Ops :
            /\ ChainMoves(o) <= 1
            /\ Cardinality({i \in DOMAIN assignments :
                   assignments[i].op = o /\ assignments[i].slot = slot}) <= 1

\* the last earlier slot in which operator o was on break (0: none)
LastBreakBefore(o, s) ==
    LET B == {assignments[i].slot : i \in
                 {j \in DOMAIN assignments :
                     /\ assignments[j].op = o
                     /\ assignments[j].desk = BreakDesk
                     /\ assignments[j].slot < s}}
    IN IF B = {} THEN 0 ELSE CHOOSE b \in B : \A c \in B : c <= b

\* operator o's assignments to normal desks in earlier slots since its last break
WorkedSinceBreak(o, s) ==
    Cardinality({i \in DOMAIN assignments :
        /\ assignments[i].op = o
        /\ assignments[i].desk # BreakDesk
        /\ assignments[i].slot < s
        /\ assignments[i].slot > LastBreakBefore(o, s)})

C9_BreakHeadcount ==
    hasBreak => \A s \in Matched : breakCount[s] = Cardinality(flagged[s])

\* two operators flagged for one slot, one of them not available in it
C9_Witness ==
    /\ hasBreak
    /\ pc = "step1"
    /\ Cardinality(flagged[slot]) >= 2
    /\ \E o \in flagged[slot] : ~can_work_slot(o, slot)

\* length of the run of consecutive non-break assignments that ends at position i
RunLength(L, i) ==
    Cardinality({j \in 1..i : \A m \in j..i : L[m].desk # BreakDesk})

\* the run reaches k at an assignment followed by a non-break assignment
LimitReachedUnrelieved(L, k) ==
    \E i \in 1..(Len(L) - 1) : RunLength(L, i) = k /\ L[i + 1].desk # BreakDesk

\* C10: validate returns false exactly when, for some operator, the running count
\* of consecutive non-break assignments reaches max_consecutive_slots at an
\* assignment whose immediately following assignment exists and is not a break;
\* in particular max_consecutive_slots + 1 consecutive non-break assignments
\* give false.
C10_Validate ==
    pc = "validated" =>
        /\ verdict = "violated" <=>
              \E j \in DOMAIN operators :
                  LimitReachedUnrelieved(OperatorAssignments(assignments, operators[j]),
                                         maxConsecutive)
        /\ (\E j \in DOMAIN operators :
               LET L == OperatorAssignments(assignments, operators[j])
               IN \E i \in DOMAIN L : RunLength(L, i) >= maxConsecutive + 1)
           => verdict = "violated"

\* a rejected list: a break, then max_consecutive_slots + 1 assignments in a row
C10_Witness ==
    /\ pc = "validated"
    /\ verdict = "violated"
    /\ \E j \in DOMAIN operators :
          LET L == OperatorAssignments(assignments, operators[j])
          IN /\ L # << >>
             /\ L[1].desk = BreakDesk
             /\ RunLength(L, Len(L)) >= maxConsecutive + 1

\* C11: adding every break assignment returned by get_required_break_assignments
\* to an assignment list and validating the result again yields true.
C11_RoundTrip == pc = "revalidated" => verdict = "satisfied"

\* positions of the constraints that fail on the list
Failing == {i \in DOMAIN constraints :
               ~ValidateConstraint(constraints[i], assignments, operators)}

\* position of the first failing hard constraint (past the end: none)
FirstHardFailure ==
    LET H == {i \in Failing : constraints[i].is_hard}
    IN IF H = {} THEN Len(constraints) + 1 ELSE Min(H)

\* the names of the failing constraints up to the first failing hard one, in list order
ExpectedViolations ==
    LET upto == SelectSeq([i \in DOMAIN constraints |-> i],
                          LAMBDA i : i \in Failing /\ i <= FirstHardFailure)
    IN [n \in DOMAIN upto |-> constraints[upto[n]].type]

\* C12: get_violations walks the constraints in list order, reports every failing
\* soft constraint it passes and stops at the first failing hard constraint, which
\* is then the last element of the result.
C12_GetViolations == pc = "reported" => violations = ExpectedViolations

\* the constraint list holds a RequiredDayOffAfterNight constraint
DayOffListed == \E i \in DOMAIN constraints : constraints[i].type = DayOffType

\* a listed operator works a night slot (hour 22 or later, or hour 6 or earlier)
\* on a date and some slot on the next date
NightThenNextDay ==
    \E j \in DOMAIN operators : \E a, b \in DOMAIN assignments :
        /\ assignments[a].op = operators[j]
        /\ assignments[b].op = operators[j]
        /\ (SlotHour(assignments[a].slot) >= NightFrom
               \/ SlotHour(assignments[a].slot) <= NightUntil)
        /\ assignments[b].date = assignments[a].date + 1

StoppedBeforeDayOff ==
    /\ violations # << >>
    /\ violations[Len(violations)] # DayOffType
    /\ FirstWithName(constraints, violations[Len(violations)]).is_hard
    /\ \E i, j \in DOMAIN constraints :
          /\ constraints[i].type = violations[Len(violations)]
          /\ constraints[j].type = DayOffType
          /\ \A m \in DOMAIN constraints : constraints[m].type = DayOffType => j <= m
          /\ i < j

C13_RunSatisfiesBreak ==
    (pc = "checked" /\ target_days = 1) => violations = << >>

\* C14: when several consecutive days are generated one run per day and the lists
\* are concatenated, validating the concatenation for the scheduled operators
\* against the constraints of the generation reports no violation.
C14_DaysSatisfyConstraints ==
    (pc = "checked" /\ target_days > 1) => violations = << >>

\* the desks operator o is assigned to in slot s
DesksHeld(o, s) ==
    {assignments[i].desk : i \in {j \in DOMAIN assignments :
                                     assignments[j].op = o /\ assignments[j].slot = s}}

\* the single desk of the scenario's requirement table
SoleDesk == CHOOSE d \in Desks : requirement[d] > 0

\* C15: with max_consecutive_slots = k, a single operator available in every slot
\* and one desk requiring 1 per slot, the operator works the first k slots, is on
\* the break desk in slot k+1, has a consecutive count of 0 for the slot after the
\* break and is assigned to the normal desk again there.
C15_ForcedBreak ==
    pc = "done" =>
        \A s \in Slots :
            /\ s <= maxConsecutive => DesksHeld(1, s) = {SoleDesk}
            /\ s = maxConsecutive + 1 =>
                  (DesksHeld(1, s) = {BreakDesk} /\ flagged[s] = {1})
            /\ s = maxConsecutive + 2 =>
                  /\ TrackerCount(assignments, 1, s) = 0
                  /\ flagged[s] = {}
                  /\ DesksHeld(1, s) = {SoleDesk}

\* a finished day in which the operator is back at the desk after its break
C15_Witness ==
    /\ pc = "done"
    /\ maxConsecutive + 2 \in Slots
    /\ DesksHeld(1, maxConsecutive + 1) = {BreakDesk}
    /\ DesksHeld(1, maxConsecutive + 2) = {SoleDesk}

\* the desk of the shortage scenario that requires 2, and the one that requires 1
ShortDesk == CHOOSE d \in Desks : requirement[d] = 2

FilledDesk == CHOOSE d \in Desks : requirement[d] = 1

\* the slots in which the three operators of the scenario are all available
ShortageSlots == {s \in Slots : \A o \in Ops : can_work_slot(o, s)}

\* the operators without an assignment in slot s
IdleIn(s) == {o \in Ops : can_work_slot(o, s) /\ DesksHeld(o, s) = {}}

\* the result of the scenario at the end of a run: in every slot where both
\* operators of the filled desk are available the short desk holds exactly 1
\* operator, the filled desk exactly 1, and exactly one operator, competent only
\* for the filled desk, is left unassigned
ShortageResult ==
    \A s \in ShortageSlots :
        /\ CountOn(assignments, ShortDesk, s) = 1
        /\ CountOn(assignments, FilledDesk, s) = 1
        /\ \E o \in Ops : IdleIn(s) = {o} /\ competent[o] = {FilledDesk}

\* C16: in the shortage scenario the run completes (every pass of the proposal
\* loop either leaves the loop or changes the matching state) and ends with the
\* short desk holding exactly 1 operator, the filled desk exactly 1 and the second
\* operator of the filled desk unassigned.
C16_ShortageRun ==
    /\ pc = "da" =>
          (UnmatchedOps(da, slot) = << >> \/ DAPassResult(da, slot) # da)
    /\ pc = "done" => ShortageResult

\* the desks' seats taken so far in the slot being matched by the proposal loop
SeatsTaken(d) == IF pc = "da" THEN Len(da.deskAssign[d]) ELSE 0

\* C17: when the operators available in every slot number exactly the total desk
\* demand and every operator is competent for every desk, the finished run holds
\* for every slot and desk exactly the required number of assignments (slots x
\* operators assignments in all), and at no point of the run does a desk hold
\* more operators in a slot than its requirement.
C17_MinimalMatching ==
    /\ \A d \in Desks :
          /\ SeatsTaken(d) <= get_requirement_for_slot(d, slot)
          /\ \A s \in Slots : CountOn(assignments, d, s) <= get_requirement_for_slot(d, s)
    /\ pc = "done" =>
          /\ \A s \in Slots, d \in Desks :
                CountOn(assignments, d, s) = get_requirement_for_slot(d, s)
          /\ Len(assignments) = NumSlots * Len(operators)

\* the example finished: 2 operators, 2 desks requiring 1 each, every slot filled,
\* with an operator displaced from its first desk in the last slot
C17_Witness ==
    /\ pc = "done"
    /\ Len(operators) = 2
    /\ Cardinality({d \in Desks : requirement[d] = 1}) = 2
    /\ Len(assignments) = 2 * NumSlots
    /\ \E o \in Range(operators) : da.proposals[o] > 1

\* the desks operator o has proposed to in the current slot, in order: the k-th
\* proposal goes to the k-th desk of its list
ProposedTo(o) == Take(OperatorPreference(o, slot), da.proposals[o])

NoRepeat(seq) == \A i, j \in DOMAIN seq : i # j => seq[i] # seq[j]

\* the number of proposals made so far by the operators of the list ops
RECURSIVE ProposalsMade(_)
ProposalsMade(ops) ==
    IF ops = << >> THEN 0 ELSE da.proposals[Head(ops)] + ProposalsMade(Tail(ops))

\* C18: during the Deferred Acceptance run of a slot every operator has made at
\* most as many proposals as its list has desks, each to a different desk, and the
\* proposals made in all number at most (operators) x (desks).
C18_ProposalBound ==
    pc = "da" =>
        /\ \A o \in Range(AvailableOps(slot)) :
              /\ da.proposals[o] <= Len(OperatorPreference(o, slot))
              /\ Len(ProposedTo(o)) = da.proposals[o]
              /\ NoRepeat(ProposedTo(o))
        /\ ProposalsMade(AvailableOps(slot)) <= Len(operators) * NumDesks

\* an operator has proposed to every desk of a list of several desks and is
\* unmatched, while the loop is still running
C18_Witness ==
    /\ pc = "da"
    /\ \E o \in Range(AvailableOps(slot)) :
          /\ Len(OperatorPreference(o, slot)) >= 2
          /\ da.proposals[o] = Len(OperatorPreference(o, slot))
          /\ da.matches[o] = NoDesk

\* operator o's assignments, in date-then-slot order, are exactly
\* max_consecutive_slots worked slots, one break-desk slot and
\* max_consecutive_slots worked slots again
ResetShape(o) ==
    LET sorted == OperatorAssignments(assignments, o)
    IN /\ Len(sorted) = 2 * maxConsecutive + 1
       /\ \A i \in DOMAIN sorted :
             (sorted[i].desk = BreakDesk) <=> (i = maxConsecutive + 1)

\* C19: when the assignments of every operator passed to validate that has any
\* are, in date-then-slot order, max_consecutive_slots worked slots, one break and
\* max_consecutive_slots worked slots, validate returns true.
C19_BreakReset ==
    (/\ pc = "validated"
     /\ \A o \in Range(operators) :
           OperatorAssignments(assignments, o) = << >> \/ ResetShape(o))
        => verdict = "satisfied"

\* a list of that shape for the largest limit, built out of order, was validated
C19_Witness ==
    /\ pc = "validated"
    /\ maxConsecutive = MaxK
    /\ ResetShape(1)
    /\ assignments # OperatorAssignments(assignments, 1)
    /\ verdict = "satisfied"

\* position i of an operator's sorted list is a worked slot at which the count of
\* consecutive worked slots reaches k: the count restarts after a break and after
\* each time it reached k, so this is every k-th entry of a stretch without break
ReachesLimit(sorted, i, k) ==
    /\ sorted[i].desk # BreakDesk
    /\ LET breaks == {j \in 1..i : sorted[j].desk = BreakDesk}
           start == IF breaks = {} THEN 0
                    ELSE CHOOSE j \in breaks : \A m \in breaks : m <= j
       IN (i - start) % k = 0

\* the number of break entries get_required_break_assignments is to return for
\* operator o, slot s and date dt out of the list asg
BreaksDue(asg, o, s, dt, k) ==
    LET sorted == OperatorAssignments(asg, o)
        holdsBreak == \E j \in DOMAIN sorted :
                         /\ sorted[j].slot = s
                         /\ sorted[j].date = dt
                         /\ sorted[j].desk = BreakDesk
    IN IF holdsBreak THEN 0
       ELSE Cardinality({i \in DOMAIN sorted :
                            /\ ReachesLimit(sorted, i, k)
                            /\ sorted[i].slot < NumSlots
                            /\ sorted[i].slot + 1 = s
                            /\ sorted[i].date = dt})

\* the entries a remediation step has added to the list
AddedBy(before, after) == SubSeq(after, Len(before) + 1, Len(after))

\* C21: get_required_break_assignments returns only break-desk entries of listed
\* operators, and for every listed operator, slot and date as many of them as the
\* operator has worked slots, just before that slot on that date and not in the
\* last slot of the day, at which its consecutive count reaches the limit; none
\* when the operator already holds a break-desk assignment at that slot and date.
C21_BreakEntries ==
    [][(pc = "build" /\ pc' = "remediated") =>
          LET added == AddedBy(assignments, assignments')
          IN /\ \A j \in DOMAIN added :
                   /\ added[j].desk = BreakDesk
                   /\ added[j].op \in Range(operators)
             /\ \A o \in Range(operators), s \in Slots, dt \in Dates :
                   Cardinality({j \in DOMAIN added :
                                   /\ added[j].op = o
                                   /\ added[j].slot = s
                                   /\ added[j].date = dt})
                       = BreaksDue(assignments, o, s, dt, maxConsecutive)]_vars

\* the dates on which operator o holds at least one assignment
DatesWorked(o) ==
    {assignments[i].date : i \in {j \in DOMAIN assignments : assignments[j].op = o}}

\* operator o works on each of more than m calendar-consecutive dates
RunLongerThan(o, m) ==
    \E first \in DatesWorked(o) : \A n \in 0..m : first + n \in DatesWorked(o)

\* C22: MaxConsecutiveDays.validate returns false exactly when some listed
\* operator has an assignment on each of more than max_consecutive_days
\* calendar-consecutive dates, however many assignments fall on one date.
C22_MaxConsecutiveDays ==
    pc = "validated" =>
        (verdict = "violated"
            <=> \E o \in Range(operators) : RunLongerThan(o, constraints[1].param))

\* assignments a and b of one operator are chronologically adjacent and on
\* consecutive dates: a starts last on its date, b starts first on the next date
AdjacentOverNight(a, b) ==
    /\ assignments[a].op = assignments[b].op
    /\ assignments[b].date = assignments[a].date + 1
    /\ \A c \in DOMAIN assignments :
          assignments[c].op = assignments[a].op =>
              /\ assignments[c].date = assignments[a].date =>
                    RestSlotStart(assignments[c].slot) <= RestSlotStart(assignments[a].slot)
              /\ assignments[c].date = assignments[b].date =>
                    RestSlotStart(assignments[b].slot) <= RestSlotStart(assignments[c].slot)

\* the same with no other assignment of the operator starting at the same hour
\* as a on a's date or as b on b's date
StrictlyAdjacentOverNight(a, b) ==
    /\ AdjacentOverNight(a, b)
    /\ \A c \in DOMAIN assignments \ {a, b} :
          assignments[c].op = assignments[a].op =>
              /\ assignments[c].date = assignments[a].date =>
                    RestSlotStart(assignments[c].slot) # RestSlotStart(assignments[a].slot)
              /\ assignments[c].date = assignments[b].date =>
                    RestSlotStart(assignments[c].slot) # RestSlotStart(assignments[b].slot)

\* the rest between a and b is below the configured threshold
ShortRest(a, b) ==
    (RestSlotStart(assignments[b].slot) - RestSlotEnd(assignments[a].slot)) % 24
        < constraints[1].param

\* C23: MinRestHours.validate returns false exactly when some listed operator
\* has two chronologically adjacent assignments on consecutive dates with
\* (next slot start - current slot end) mod 24 below the threshold: it returns
\* false when there is such a pair, whatever the order of the list, and only when
\* there is one (taking either of two assignments that start at the same hour).
C23_MinRestHours ==
    pc = "validated" =>
        /\ (\E a, b \in DOMAIN assignments :
               /\ assignments[a].op \in Range(operators)
               /\ StrictlyAdjacentOverNight(a, b)
               /\ ShortRest(a, b))
              => verdict = "violated"
        /\ verdict = "violated"
              => \E a, b \in DOMAIN assignments :
                    /\ assignments[a].op \in Range(operators)
                    /\ AdjacentOverNight(a, b)
                    /\ ShortRest(a, b)

\* slot.duration_hours of the calendar slot with an id
DurationHours(id) ==
    LET i == CHOOSE k \in DOMAIN create_default_slots :
                 create_default_slots[k].slot_id = id
    IN create_default_slots[i].duration_hours

\* the hours operator o is assigned in the week that starts on the Monday wk
RECURSIVE HoursOfWeek(_, _, _)
HoursOfWeek(asg, o, wk) ==
    IF asg = << >> THEN 0
    ELSE (IF Head(asg).op = o /\ WeekStart(Head(asg).date) = wk
          THEN DurationHours(Head(asg).slot) ELSE 0)
             + HoursOfWeek(Tail(asg), o, wk)

\* C24: MaxWeeklyHours.validate returns false exactly when, for some listed
\* operator and some Monday-started week, the durations (slot.duration_hours) of
\* the slots assigned to the operator in that week add up to more than
\* max_weekly_hours.
C24_MaxWeeklyHours ==
    pc = "validated" =>
        (verdict = "violated"
            <=> \E o \in Range(operators), dt \in WeekDates :
                   HoursOfWeek(assignments, o, WeekStart(dt)) > constraints[1].param)

\* start, end and duration of a slot: an hourly slot h<hour> lasts the hour, a
\* named slot is the calendar's
SlotStartsAt(id) ==
    IF id \in HourlyIds THEN HourOfId(id)
    ELSE LET i == CHOOSE k \in DOMAIN create_default_slots :
                      create_default_slots[k].slot_id = id
         IN create_default_slots[i].start_time

SlotEndsAt(id) ==
    IF id \in HourlyIds THEN HourOfId(id) + 1
    ELSE LET i == CHOOSE k \in DOMAIN create_default_slots :
                      create_default_slots[k].slot_id = id
         IN create_default_slots[i].end_time

SlotLasts(id) == IF id \in HourlyIds THEN 1 ELSE DurationHours(id)

\* assignment b is the operator's next slot after a on a's date, no other slot
\* of the operator starting that day at the hour of a or of b
NextSameDay(a, b) ==
    /\ a # b
    /\ assignments[a].op = assignments[b].op
    /\ assignments[a].date = assignments[b].date
    /\ SlotStartsAt(assignments[a].slot) < SlotStartsAt(assignments[b].slot)
    /\ \A c \in DOMAIN assignments \ {a, b} :
          (assignments[c].op = assignments[a].op /\ assignments[c].date = assignments[a].date)
              => \/ SlotStartsAt(assignments[c].slot) < SlotStartsAt(assignments[a].slot)
                 \/ SlotStartsAt(assignments[c].slot) > SlotStartsAt(assignments[b].slot)

\* C25: RequiredBreakAfterLongShift.validate returns false whenever a listed
\* operator holds a slot lasting at least the threshold and the operator's next
\* slot on the same date starts less than required_break_hours after it ends.
C25_BreakAfterLongShift ==
    pc = "validated" =>
        ((\E a, b \in DOMAIN assignments :
             /\ assignments[a].op \in Range(operators)
             /\ SlotLasts(assignments[a].slot) >= constraints[1].param.threshold
             /\ NextSameDay(a, b)
             /\ SlotStartsAt(assignments[b].slot) - SlotEndsAt(assignments[a].slot)
                   < constraints[1].param.break)
            => verdict = "violated")

\* a ranking for slot s lists the operators who prefer the slot first and, within
\* each of the two groups, the operators by ascending name
RankedAsStated(ranking, s) ==
    \A i, j \in DOMAIN ranking :
        i < j =>
            \/ prefers_slot(ranking[i], s) /\ ~prefers_slot(ranking[j], s)
            \/ /\ prefers_slot(ranking[i], s) = prefers_slot(ranking[j], s)
               /\ ranking[i] < ranking[j]

\* C26: the ranking of the available operators a desk uses for a slot, in the
\* proposal loop of the plain algorithm and in the selection of the constrained
\* one, has the operators who prefer the slot first and each group in ascending
\* order of operator name.
C26_DeskRanking ==
    /\ pc = "da" => RankedAsStated(DeskPreference(slot), slot)
    /\ (algorithm = "constrained" /\ pc = "step1") =>
          RankedAsStated(SortCandidates(Range(AvailableOps(slot)), slot), slot)

\* C27: no entry of the assignment list has an empty operator name, desk name or
\* slot id, since constructing such an Assignment raises.
C27_NoEmptyName ==
    \A i \in DOMAIN assignments :
        /\ OperatorName(assignments[i].op) # ""
        /\ DeskName(assignments[i].desk) # ""
        /\ SlotId(assignments[i].slot) # ""

\* the number of entries of the list that satisfy the test
CountWhere(list, Test(_)) == Cardinality({i \in DOMAIN list : Test(list[i])})

\* a value that is well formed for the key, in the forms of the configuration
\* surface: an integer, a number, a flag without value, a pair
WellFormed(line) ==
    CASE line.key \in {MaxDaysType, NightShiftsType} -> line.form = "int"
      [] line.key \in {WeeklyType, MinRestType} -> line.form \in {"int", "float"}
      [] line.key = DayOffType -> line.form = "none"
      [] line.key = LongShiftType -> line.form = "pair"
      [] line.key = BreakType -> line.form \in {"int", "pair"}

\* a value that is malformed for the key whatever reading of the forms is taken:
\* text without a digit where a number is expected
Malformed(line) == line.key # DayOffType /\ line.form \in {"word", "none"}

\* C28: parsing yields exactly one constraint for each non-comment line with a
\* recognized key and a well-formed value, and nothing for comment lines and
\* malformed lines: for every key, the constraints of that type are at least the
\* well-formed non-comment lines and at most the non-comment lines that are not
\* malformed.
C28_OnePerLine ==
    pc = "parsed" =>
        \A key \in ConfigurationKeys :
            LET OfType(c) == c.type = key
                Due(line) == line.key = key /\ ~line.comment /\ WellFormed(line)
                Possible(line) == line.key = key /\ ~line.comment /\ ~Malformed(line)
            IN /\ CountWhere(constraints, OfType) >= CountWhere(constraint_text, Due)
               /\ CountWhere(constraints, OfType) <= CountWhere(constraint_text, Possible)

\* the slot ids of an hourly calendar from 09:00 to 18:00
HourlyCalendarIds == <<"h09", "h10", "h11", "h12", "h13", "h14", "h15", "h16", "h17">>

\* C29: the default calendar consists of nine one-hour slots h09, h10, ..., h17
\* that cover 09:00 to 18:00, so every shift taken from it is in one of these.
C29_DefaultCalendar ==
    assignments # << >> =>
        /\ Len(create_default_slots) = Len(HourlyCalendarIds)
        /\ \A k \in DOMAIN create_default_slots :
              create_default_slots[k] =
                  TimeSlot(HourlyCalendarIds[k], FirstHour + k - 1, FirstHour + k, 1)
        /\ \A i \in DOMAIN assignments :
              assignments[i].slot \in Range(HourlyCalendarIds)

\* C30 as stated: whenever no constraint is configured, the default constraint set
\* is the one in use, by the manager and by the algorithm.
C30_DefaultsWhenEmpty ==
    (pc \in {"created", "constructed", "constructed_directly"} /\ constraints_config = {})
        => constraints = create_default_constraints

\* C30 amended: when no constraint is enabled, create_constraints returns the
\* default constraint set and the algorithm constructed from that list uses it; an
\* algorithm handed None or an empty list itself keeps an empty list.
C30_FallbackInManager ==
    /\ (pc \in {"created", "constructed"} /\ constraints_config = {})
          => constraints = create_default_constraints
    /\ pc = "constructed_directly" => constraints = << >> /\ ~hasBreak

C30_Witness ==
    /\ pc = "constructed"
    /\ constraints_config = {}
    /\ hasBreak
    /\ Len(constraints) = Len(create_default_constraints)

\* the steps that process the current slot: matching and the three resolver steps
SlotProcessing == pc \in {"match", "da", "step1", "step1_2", "step2"}

\* C31: processing slot S creates or changes only assignments whose slot is S:
\* every assignment of another slot keeps its place, operator, desk, slot and
\* date, and every new or changed entry is for S.
C31_SlotFrame ==
    [][SlotProcessing =>
         /\ Len(assignments') >= Len(assignments)
         /\ \A i \in DOMAIN assignments :
               assignments[i].slot # slot => assignments'[i] = assignments[i]
         /\ \A i \in DOMAIN assignments' :
               (i \notin DOMAIN assignments \/ assignments'[i] # assignments[i])
                   => assignments'[i].slot = slot]_vars

\* a later slot has been resolved with a move of step 1-2 while the list holds
\* assignments of earlier slots
C31_Witness ==
    /\ pc = "resolved"
    /\ slot > 1
    /\ status.log # << >>
    /\ \E i \in DOMAIN assignments : assignments[i].slot < slot

\* operator o is available and has no assignment in the current slot
IdleNow(o) ==
    /\ o \in Range(operators)
    /\ can_work_slot(o, slot)
    /\ \A i \in DOMAIN assignments :
          assignments[i].slot = slot => assignments[i].op # o

\* desk d holds fewer assignments in the current slot than it requires
BelowRequired(d) ==
    Cardinality({i \in DOMAIN assignments :
                    assignments[i].slot = slot /\ assignments[i].desk = d})
        < requirement[d]

\* operator o may be given the normal desk d: competent, and not due for a break
\* when the consecutive-slots constraint is configured
MayTake(o, d) ==
    /\ d \in competent[o]
    /\ hasBreak => o \notin status.rbo

\* C32: when the resolver has finished a slot, no available and unassigned
\* operator is competent and break-eligible for a desk that is still below its
\* required count.
C32_NoEligibleIdle ==
    pc = "resolved" =>
        \A o \in Ops, d \in Desks :
            ~(IdleNow(o) /\ BelowRequired(d) /\ MayTake(o, d))

\* a shortage persists beside an idle operator who may not take the desk
C32_Witness ==
    /\ pc = "resolved"
    /\ \E o \in Ops, d \in Desks : IdleNow(o) /\ BelowRequired(d) /\ ~MayTake(o, d)

\* the number of assignments desk d holds in the current slot, in a list
HeldBy(asg, d) ==
    Cardinality({i \in DOMAIN asg : asg[i].slot = slot /\ asg[i].desk = d})

\* C33: a surplus-to-shortage move of the resolver is made only from a desk that
\* holds more assignments than it requires: a desk that loses an assignment in
\* step 2 still holds its required count afterwards.
C33_SurplusOnly ==
    [][pc = "step2" =>
         \A d \in Desks :
             HeldBy(assignments', d) < HeldBy(assignments, d)
                 => HeldBy(assignments', d) >= requirement[d]]_vars

\* C34: every assignment of the list a constrained run returns, the appended
\* break assignments included, is for a slot in its operator's available_slots.
C34_WithinAvailability ==
    (algorithm = "constrained" /\ pc = "done") =>
        \A i \in DOMAIN assignments :
            assignments[i].slot \in available[assignments[i].op]

\* the lists returned by the earlier calls made for the date of the current call
ReturnedForDate == SelectSeq(all_assignments, LAMBDA a : a.date = target_date)

\* e is the list l written one or more times in a row
IsRepetitionOf(e, l) ==
    /\ l # << >>
    /\ Len(e) % Len(l) = 0
    /\ \A i \in DOMAIN e : e[i] = l[((i - 1) % Len(l)) + 1]

AgreesWithDirectCalls(results, asg, ops) ==
    \A i \in DOMAIN constraints :
        \E j \in DOMAIN results :
            /\ results[j].name = constraints[i].type
            /\ results[j].valid = ValidateConstraint(constraints[i], asg, ops)

\* C36: in any sequence of validate_all and clear_cache calls on one validator, each
\* validate_all(assignments, operators) returns for every constraint the pass/fail
\* value that the constraint's validate gives on the same assignments and operators
C36_CacheTransparent ==
    [][calls' = calls + 1
         => AgreesWithDirectCalls(verdict', assignments', operators')]_vars

\* the operators named by the assignments of the list
OperatorsOfList == {assignments[i].op : i \in DOMAIN assignments}

\* C37: validate returns false for every assignment list that violates the rule,
\* whichever operators list is passed: an operator whose assignments reach the limit
\* unrelieved makes the verdict false whether or not it is in the operators argument
C37_OperatorsIrrelevant ==
    pc = "validated" =>
        ((\E o \in OperatorsOfList :
             LimitReachedUnrelieved(OperatorAssignments(assignments, o), maxConsecutive))
            => verdict = "violated")

\* the orders in which the entries of the list can be written
Orders(asg) ==
    {p \in [DOMAIN asg -> DOMAIN asg] : \A i, j \in DOMAIN asg : p[i] = p[j] => i = j}

Reordered(asg, p) == [i \in DOMAIN asg |-> asg[p[i]]]

\* C38: the result of validate depends only on the set of assignments, not on their
\* order in the list: the verdict on a list is the verdict on each of its permutations
C38_OrderIndependent ==
    pc = "validated" =>
        \A p \in Orders(assignments) :
            (verdict = "satisfied")
                <=> ValidateMinRestHours(Reordered(assignments, p), operators,
                                         constraints[1].param)

\* C39: no generated day schedule assigns an operator slots whose total duration on
\* that day exceeds the operator's max_work_hours_per_day
C39_WithinDailyHours ==
    pc = "done" =>
        \A o \in Ops :
            calculate_work_hours(assignments, o, target_date) <= max_work_hours_per_day

====
